---- MODULE Spec2Model ----
(***************************************************************************)
(* State-machine model of the DataWhiz analysis workflow.                  *)
(*                                                                         *)
(* The React front end (RoleAnalysis page, DataCleaning, RoleSpecificTasks,*)
(* NaturalLanguageQuery, AIInsights, DataQualityAssessment) is modelled    *)
(* from its source.  The session store, cleaning pipeline, scoring engine, *)
(* dispatcher and query engine it talks to live in the Python back end;    *)
(* they are modelled from the written specification and are marked as such *)
(* where they are defined.                                                 *)
(*                                                                         *)
(* A dataset is tracked by its provenance: the sequence of cleaning        *)
(* operations applied to the uploaded table.  Operations are uninterpreted *)
(* (two datasets are equal only if the same operations were applied in the *)
(* same order), so every property about ordering, rollback and snapshots   *)
(* distinguishes all the cases real data can distinguish.  The operations  *)
(* whose effect on the rows matters are applied to concrete tables of rows *)
(* and columns in SpecEngine.                                              *)
(***************************************************************************)
EXTENDS Integers, Sequences, FiniteSets, TLC

VARIABLES
    \* ---- RoleAnalysis page (pages/RoleAnalysis.tsx)
    currentStep,        \* 1..4
    uploadedFile,       \* a file has been stored in page state
    sessionId,          \* Null or a session id
    preview,            \* list of rows, or Undefined
    columns,            \* list of column names, or Undefined
    pageError,          \* Null or a message
    startedOver,        \* history: "Start Over" was the last thing that set the step to 1
    \* ---- DataCleaning component (mounted while currentStep = 2 and sessionId is set)
    selectedActions,    \* ordered list of action ids
    isProcessing,
    cleanedData,
    originalData,
    dcError,            \* Null or a message (a sequence of text fragments)
    \* ---- requests in flight
    calls,              \* clean calls, 1..nCalls issued
    nCalls,
    reads,              \* read calls (preview, quality, analysis, query), 1..nReads issued
    nReads,
    \* ---- session store (back end)
    sessionExists,
    originalDataset,
    currentDataset,
    cleaningHistory,
    writer,             \* the clean call that holds the session, or 0
    readers,            \* the read calls that hold the session
    \* ---- RoleSpecificTasks component and the page's analysis result
    role,               \* id of the role the component is given
    activeTask,
    tasksProcessing,    \* the component's isProcessing
    completedTasks,
    analysisResults,
    \* ---- NaturalLanguageQuery component
    isLoading,
    response,           \* the NLQResponse shown, or NoResponse
    nlqError,           \* the component's error
    queryHistory,
    \* ---- the page's insight log (shown by AIInsights)
    insights,
    isProcessingInsight,
    \* ---- query and insight requests in flight
    queries,            \* 1..nQueries issued
    nQueries,
    \* ---- DataQualityAssessment component
    qaLoading,
    assessment,
    qaError,
    \* ---- pipeline, scoring engine and dispatcher at work on one table
    table,              \* the table the engine works on
    outcome,            \* what the last call on the table returned
    \* ---- RoleAnalysis page: the upload's busy flag
    isUploading,
    \* ---- AuthProvider (contexts/AuthContext.tsx)
    user,               \* NoUser or the user a token belongs to
    sessionToken,       \* Null or a token
    isAuthenticated,
    localStorageToken,  \* localStorage item 'sessionToken': Null or a token
    validation,         \* the validateSession call of the mount effect: where it stands, its token
    signIn,             \* a login or register call: where it stands, which of the two
    nSignIns,           \* login and register calls made so far
    signOut             \* a logout call awaiting apiService.logout

pageVars  == <<currentStep, uploadedFile, sessionId, preview, columns, pageError, startedOver>>
dcVars    == <<selectedActions, isProcessing, cleanedData, originalData, dcError>>
netVars   == <<calls, nCalls, reads, nReads>>
storeVars == <<sessionExists, originalDataset, currentDataset, cleaningHistory, writer, readers>>
tasksVars == <<role, activeTask, tasksProcessing, completedTasks, analysisResults>>
nlqVars   == <<isLoading, response, nlqError, queryHistory, insights,
               isProcessingInsight, queries, nQueries>>
authVars  == <<user, sessionToken, isAuthenticated, localStorageToken,
               validation, signIn, nSignIns, signOut>>
asideVars == <<qaLoading, assessment, qaError, table, outcome, isUploading, authVars>>
vars      == <<pageVars, dcVars, netVars, storeVars, tasksVars, nlqVars, asideVars>>

----------------------------------------------------------------------------
\* Bounds of the model

\* The user of the cleaning screen toggles among its first MaxCards cards.
MaxCards == 2
\* Clean calls issued from one mounted cleaning screen.
MaxCalls == 2
\* Clean calls issued while the user walks through the page.
PageCalls == 1
\* Read calls issued in one behaviour.
MaxReads == 1
\* Rows of the largest uploaded table.
MaxRows == 1
\* Questions asked in one behaviour.
MaxQueries == 2
\* Login and register calls made in one behaviour.
MaxSignIns == 2
\* Rows of the largest table the engine is given.
MaxTableRows == 3

----------------------------------------------------------------------------
\* Values

Null == "null"

Range(s) == {s[i] : i \in DOMAIN s}
Min(a, b) == IF a <= b THEN a ELSE b

\* A JavaScript value of type any[] | undefined.
List(rows) == [def |-> TRUE, rows |-> rows]
UndefinedList == [def |-> FALSE, rows |-> <<>>]
\* `x && x.length > 0`
NonEmpty(x) == x.def /\ Len(x.rows) > 0
\* `x || []`
OrEmpty(x) == IF x.def THEN x.rows ELSE <<>>

\* A message is a sequence of text fragments; no message (null) is the empty one.
NoError == <<>>

\* The id every placeholder upload hands out.
DemoSession == "demo-session"

\* A dataset: the operations applied to the uploaded table, and its row count.
Dataset(ops, rows) == [ops |-> ops, rows |-> rows]
NoDataset == Dataset(<<"none">>, 0)

\* An analysis result: the task and role it is for, and the dataset it was
\* computed from.  NoResult is the page's null.
AnalysisResult(r, t, d) == [role |-> r, task |-> t, of |-> d]
NoResult == AnalysisResult(Null, Null, NoDataset)

\* The quality assessment of a dataset, as the quality panel holds it.
\* NoAssessment is the panel's null.
QualityAssessment(d) == [of |-> d]
NoAssessment == QualityAssessment(NoDataset)

\* Rows shown in a preview (the screens show data.slice(0, 5)).
PreviewRows == 5

\* Responses the query box keeps (the newest and prev.slice(0, 4)).
HistoryLimit == 5

\* The first PreviewRows rows of a dataset, as the back end returns them.
PreviewOf(d) == [i \in 1..Min(d.rows, PreviewRows) |-> [of |-> d.ops, row |-> i]]

----------------------------------------------------------------------------
\* Requests in flight

\* A clean call: the request, the store's progress on it (`next`, and
\* `before`, the snapshot taken when it began), the answer, and what the
\* handler that sent it remembers (`orphan`: its screen is gone;
\* `originalCount`: originalData.length when "Apply Selected" was clicked).
IdleCall ==
    [status |-> "idle", ops |-> <<>>, session |-> Null, next |-> 1,
     before |-> NoDataset,
     ok |-> FALSE, statusText |-> "", failedOp |-> Null,
     respPreview |-> UndefinedList, respRows |-> 0,
     orphan |-> FALSE, originalCount |-> 0]
SettledCall == [IdleCall EXCEPT !.status = "settled"]

\* A read call: preview, assessQuality, runAnalysis or query.
IdleRead ==
    [status |-> "idle", kind |-> "none", role |-> Null, task |-> Null,
     ok |-> FALSE, error |-> Null, saw |-> NoDataset]
SettledRead == [IdleRead EXCEPT !.status = "settled"]

\* The answer to a natural-language query: its type (Null when absent) and
\* the phrases of interest its message contains.
NLQResult(type, message) == [type |-> type, message |-> message]
NoNLQResult == NLQResult(Null, {})

\* A question on its way: who asked ("nlq": the query box, "insight": the
\* insight chat), the question, and the answer once there is one.
IdleQuery ==
    [status |-> "idle", from |-> "none", question |-> <<>>, result |-> NoNLQResult]
SettledQuery == [IdleQuery EXCEPT !.status = "settled"]

\* The NLQResponse the query box builds.
NLQResponse(query, answer, confidence, intent) ==
    [success |-> TRUE, query |-> query, answer |-> answer,
     confidence |-> confidence, intent |-> intent]
\* The query box's null response.
NoResponse ==
    [success |-> FALSE, query |-> <<>>, answer |-> {}, confidence |-> 0, intent |-> Null]

IssuedCalls == 1..nCalls
IssuedReads == 1..nReads

----------------------------------------------------------------------------
\* Session store and cleaning pipeline (back end; modelled from the
\* specification, sections 4.2, 5 and 7)

Operations ==
    {"remove_nulls", "drop_duplicates", "impute_missing", "normalize_data",
     "one_hot_encode", "aggregate_data", "feature_engineering", "data_validation"}

\* Row counts an operation can leave, from a table of n rows.
RowsAfter(op, n) ==
    CASE op = "remove_nulls"    -> 0..n
      [] op = "drop_duplicates" -> IF n = 0 THEN {0} ELSE 1..n
      [] OTHER                  -> {n}

\* The operations that mutate the table (data_validation only reports; the
\* cleaning screen supplies no group key, so aggregate_data is a no-op).
Mutates(op) == op \notin {"data_validation", "aggregate_data"}

\* One operation applied to a dataset, leaving n rows.
ApplyOperation(op, d, n) ==
    IF Mutates(op) THEN Dataset(Append(d.ops, op), n) ELSE d

\* Reason phrases of the HTTP answers.
StatusText(kind) ==
    CASE kind = "ok"        -> "OK"
      [] kind = "no-session" -> "Not Found"
      [] kind = "raised"     -> "Internal Server Error"
      [] OTHER               -> ""

\* A clean call may begin when no other call holds the session.
MayBeginClean == writer = 0 /\ readers = {}
\* A store whose reads do not wait.
MayBeginReadAnytime == TRUE

\* A read may begin when no clean call holds the session.
MayBeginRead == writer = 0

\* Clean call c reaches the store.  Unknown session: SessionNotFoundError.
StoreBeginClean(c) ==
    /\ c \in IssuedCalls
    /\ calls[c].status = "sent"
    /\ MayBeginClean
    /\ IF sessionExists /\ calls[c].session = DemoSession
         THEN /\ calls' = [calls EXCEPT ![c].status = "running",
                                        ![c].before = currentDataset]
              /\ writer' = c
         ELSE /\ calls' = [calls EXCEPT ![c].status = "responded",
                                        ![c].ok = FALSE,
                                        ![c].statusText = StatusText("no-session")]
              /\ writer' = writer
    /\ UNCHANGED <<asideVars, nlqVars, tasksVars, pageVars, dcVars, nCalls, reads, nReads, sessionExists,
                   originalDataset, currentDataset, cleaningHistory, readers>>

\* What a raised operation does to the dataset: back to the pre-call value.
Rollback(c) == calls[c].before

\* The next operation of call c runs on the output of the previous one, or raises.
StoreApplyOperation(c) ==
    /\ c \in IssuedCalls
    /\ calls[c].status = "running"
    /\ calls[c].next <= Len(calls[c].ops)
    /\ LET op == calls[c].ops[calls[c].next] IN
       \/ \E n \in RowsAfter(op, currentDataset.rows) :
            /\ currentDataset' = ApplyOperation(op, currentDataset, n)
            /\ calls' = [calls EXCEPT ![c].next = @ + 1]
            /\ writer' = writer
       \/ /\ currentDataset' = Rollback(c)
          /\ calls' = [calls EXCEPT ![c].status = "responded",
                                    ![c].ok = FALSE,
                                    ![c].statusText = StatusText("raised"),
                                    ![c].failedOp = op]
          /\ writer' = 0
    /\ UNCHANGED <<asideVars, nlqVars, tasksVars, pageVars, dcVars, nCalls, reads, nReads, sessionExists,
                   originalDataset, cleaningHistory, readers>>

\* A log that keeps only the latest call.
HistoryAfterLatestOnly(c) == calls[c].ops

\* The log after a successful call.
HistoryAfter(c) == cleaningHistory \o calls[c].ops

\* Every operation of call c has run: log the names, answer with the preview.
StoreFinishClean(c) ==
    /\ c \in IssuedCalls
    /\ calls[c].status = "running"
    /\ calls[c].next > Len(calls[c].ops)
    /\ cleaningHistory' = HistoryAfter(c)
    /\ calls' = [calls EXCEPT ![c].status = "responded",
                              ![c].ok = TRUE,
                              ![c].statusText = StatusText("ok"),
                              ![c].respPreview = List(PreviewOf(currentDataset)),
                              ![c].respRows = currentDataset.rows]
    /\ writer' = 0
    /\ UNCHANGED <<asideVars, nlqVars, tasksVars, pageVars, dcVars, nCalls, reads, nReads, sessionExists,
                   originalDataset, currentDataset, readers>>

----------------------------------------------------------------------------
\* Roles and task lists of the front end (RoleAnalysis.handleAnalysis,
\* RoleSpecificTasks.roleTasksMap)

\* Front-end role id -> back-end role name, as the analysis request maps it;
\* Null where the map has no entry.
roleMapping(id) ==
    CASE id = "business-analyst"    -> "business"
      [] id = "research-eda"        -> "research"
      [] id = "marketing"           -> "marketing"
      [] id = "finance"             -> "financial"
      [] id = "predictive-modeling" -> "predictive"
      [] id = "healthcare"          -> "healthcare"
      [] id = "ecommerce"           -> "ecommerce"
      [] id = "general"             -> "general"
      [] OTHER                      -> Null

\* The task ids of each role's task list, keyed by front-end role id.
roleTasksMap ==
    ("business-analyst" :>
        <<"kpi", "customer_segmentation", "revenue_analysis", "performance_metrics">>)
    @@ ("research-eda" :>
        <<"correlation_matrix", "summary_stats", "outliers", "hypothesis_testing">>)
    @@ ("marketing" :>
        <<"roi_analysis", "rfm_analysis", "engagement_funnel", "persona_clusters">>)
    @@ ("finance" :>
        <<"forecasting", "risk_heatmap", "roi_irr_npv", "volatility">>)
    @@ ("predictive-modeling" :>
        <<"automl", "regression_classification", "model_evaluation", "drift_monitor">>)
    @@ ("healthcare" :>
        <<"cohort_survival", "prevalence_graph", "patient_clustering", "hospital_stats">>)
    @@ ("ecommerce" :>
        <<"market_basket", "trends", "order_funnel", "inventory_forecast">>)
    @@ ("general" :>
        <<"auto_eda", "correlation", "gpt_insights", "auto_queries">>)

----------------------------------------------------------------------------
\* Session store: reads and analysis dispatch (back end; modelled from the
\* specification, sections 4.4, 5 and 7)

\* The dispatcher's table: the (role, taskId) pairs that have an analysis
\* function, four per back-end role.
DispatchTable ==
    {<<roleMapping(k), roleTasksMap[k][i]>> :
        k \in DOMAIN roleTasksMap, i \in 1..4}

\* Why a read call is refused before it reads anything, or Null.
Refusal(r) ==
    CASE ~sessionExists -> "SessionNotFoundError"
      [] reads[r].kind = "analysis"
           /\ <<reads[r].role, reads[r].task>> \notin DispatchTable -> "UnknownTaskError"
      [] OTHER -> Null

\* Read call r reaches the store: it is refused, or takes the session for reading.
StoreBeginRead(r) ==
    /\ r \in IssuedReads
    /\ reads[r].status = "sent"
    /\ MayBeginRead
    /\ IF Refusal(r) = Null
         THEN /\ reads' = [reads EXCEPT ![r].status = "running"]
              /\ readers' = readers \cup {r}
         ELSE /\ reads' = [reads EXCEPT ![r].status = "responded",
                                        ![r].ok = FALSE,
                                        ![r].error = Refusal(r)]
              /\ readers' = readers
    /\ UNCHANGED <<asideVars, nlqVars, tasksVars, pageVars, dcVars, calls, nCalls, nReads, sessionExists,
                   originalDataset, currentDataset, cleaningHistory, writer>>

\* Read call r computes its answer from the current dataset.
StoreFinishRead(r) ==
    /\ r \in IssuedReads
    /\ reads[r].status = "running"
    /\ reads' = [reads EXCEPT ![r].status = "responded",
                              ![r].ok = TRUE,
                              ![r].saw = currentDataset]
    /\ readers' = readers \ {r}
    /\ UNCHANGED <<asideVars, nlqVars, tasksVars, pageVars, dcVars, calls, nCalls, nReads, sessionExists,
                   originalDataset, currentDataset, cleaningHistory, writer>>

----------------------------------------------------------------------------
\* Tabular dataset, cleaning operations, scoring engine and task dispatcher
\* at work on one table (back end; modelled from the specification, sections
\* 3, 4.1 to 4.4 and 7)

\* Scalar values of a cell: null, a value, a value out of its range.
Cells == {Null, "value", "out-of-range"}

\* The column names of the tables, in insertion order.
ColumnNames == <<"id", "revenue">>

\* A TabularDataset: column names and rows, row-major.
Table(names, rows) == [columns |-> names, rows |-> rows]
NoTable == Table(<<>>, <<>>)

\* The parsed tables of up to MaxTableRows rows an upload can construct.
Tables ==
    UNION {{Table(SubSeq(ColumnNames, 1, c), rows) :
               rows \in UNION {[1..n -> [1..c -> Cells]] : n \in 0..MaxTableRows}} :
           c \in 1..Len(ColumnNames)}

\* Invariant of a TabularDataset: every row has len(columns) values.
WellShaped(t) == \A i \in DOMAIN t.rows : Len(t.rows[i]) = Len(t.columns)

HasNull(row) == \E j \in DOMAIN row : row[j] = Null

\* An operation that drops only the first row that contains a null.
remove_first_null_row(t) ==
    IF \E i \in DOMAIN t.rows : HasNull(t.rows[i])
      THEN LET i == CHOOSE i \in DOMAIN t.rows :
                        HasNull(t.rows[i]) /\ \A j \in 1..(i - 1) : ~HasNull(t.rows[j])
           IN Table(t.columns, SubSeq(t.rows, 1, i - 1) \o SubSeq(t.rows, i + 1, Len(t.rows)))
      ELSE t

\* remove_nulls: drop the rows that contain a null in any column.
remove_nulls(t) == Table(t.columns, SelectSeq(t.rows, LAMBDA row : ~HasNull(row)))

\* The rows that are no value-tuple of a prior row, in order.
RECURSIVE FirstOccurrences(_)
FirstOccurrences(rows) ==
    IF rows = <<>> THEN <<>>
    ELSE LET front == FirstOccurrences(SubSeq(rows, 1, Len(rows) - 1))
             last  == rows[Len(rows)]
         IN IF last \in Range(front) THEN front ELSE Append(front, last)

\* An operation that drops only the last row, when it repeats a prior row.
drop_last_duplicate(t) ==
    IF t.rows # <<>> /\ t.rows[Len(t.rows)] \in Range(SubSeq(t.rows, 1, Len(t.rows) - 1))
      THEN Table(t.columns, SubSeq(t.rows, 1, Len(t.rows) - 1))
      ELSE t

\* drop_duplicates: drop the rows that are exact value-tuples of a prior
\* row; the first occurrence wins.
drop_duplicates(t) == Table(t.columns, FirstOccurrences(t.rows))

\* A withColumn that appends the values it is given to the rows they reach.
withColumnUnchecked(t, name, values) ==
    [error |-> Null,
     table |-> Table(Append(t.columns, name),
                     [i \in DOMAIN t.rows |->
                         IF i \in DOMAIN values THEN Append(t.rows[i], values[i])
                         ELSE t.rows[i]])]

\* withColumn(name, values): a new table with one more column, or
\* SchemaError and the table as it was if the rows would get differing
\* lengths.
withColumn(t, name, values) ==
    IF Len(values) # Len(t.rows) THEN [error |-> "SchemaError", table |-> t]
    ELSE [error |-> Null,
          table |-> Table(Append(t.columns, name),
                          [i \in DOMAIN t.rows |-> Append(t.rows[i], values[i])])]

\* A score as a fraction of integers, and its comparison with a threshold.
Score(num, den) == [num |-> num, den |-> den]
AtLeast(score, threshold) == score.num >= threshold * score.den

\* The six dimensions of a QualityAssessment.
Dimensions ==
    <<"completeness", "consistency", "accuracy", "uniqueness", "validity", "timeliness">>

totalCells(t) == Len(t.rows) * Len(t.columns)

CellsWith(t, value) ==
    Cardinality({ij \in (DOMAIN t.rows) \X (DOMAIN t.columns) : t.rows[ij[1]][ij[2]] = value})

\* Per-dimension scoring of a table that has rows.  The tables carry no
\* formats and no datetime column: consistency and timeliness are 100; a
\* value out of range breaks the rule of its column.
dimensionScore(t, dimension) ==
    CASE dimension = "completeness" ->
             Score(100 * (totalCells(t) - CellsWith(t, Null)), totalCells(t))
      [] dimension = "accuracy" ->
             Score(100 * Cardinality({i \in DOMAIN t.rows : "out-of-range" \notin Range(t.rows[i])}),
                   Len(t.rows))
      [] dimension = "uniqueness" ->
             Score(100 * Len(FirstOccurrences(t.rows)), Len(t.rows))
      [] dimension = "validity" ->
             Score(100 * (totalCells(t) - CellsWith(t, "out-of-range")), totalCells(t))
      [] OTHER -> Score(100, 1)

\* The sum of a sequence of integers.
RECURSIVE Sum(_)
Sum(ns) == IF ns = <<>> THEN 0 ELSE ns[1] + Sum(Tail(ns))

\* The arithmetic mean of the six scores; den is a multiple of each
\* score's denominator.
Mean(scores, den) ==
    Score(Sum([k \in DOMAIN Dimensions |->
                  scores[Dimensions[k]].num * (den \div scores[Dimensions[k]].den)]),
          Len(Dimensions) * den)

\* Grades with the thresholds of B and C exchanged.
gradeOfExchanged(score) ==
    IF AtLeast(score, 90) THEN "A"
    ELSE IF AtLeast(score, 80) THEN "C"
    ELSE IF AtLeast(score, 70) THEN "B"
    ELSE IF AtLeast(score, 60) THEN "D"
    ELSE "F"

\* grade = A if >= 90, B if >= 80, C if >= 70, D if >= 60, else F.
gradeOf(score) ==
    IF AtLeast(score, 90) THEN "A"
    ELSE IF AtLeast(score, 80) THEN "B"
    ELSE IF AtLeast(score, 70) THEN "C"
    ELSE IF AtLeast(score, 60) THEN "D"
    ELSE "F"

\* One recommendation for each dimension scoring below 70: priority high
\* below 50, medium otherwise.
recommendationsFor(scores) ==
    LET low == SelectSeq(Dimensions, LAMBDA d : ~AtLeast(scores[d], 70))
    IN [k \in DOMAIN low |->
           [category |-> low[k],
            priority |-> IF AtLeast(scores[low[k]], 50) THEN "medium" ELSE "high"]]

\* The assessment a table's scores make.
Assessment(scores, overallScore) ==
    [scores |-> scores, overallScore |-> overallScore, grade |-> gradeOf(overallScore),
     recommendations |-> recommendationsFor(scores)]

\* The assessment of a table without rows: score 0, grade F, and the one
\* recommendation to supply data.
EmptyAssessment ==
    [scores |-> [d \in Range(Dimensions) |-> Score(0, 1)], overallScore |-> Score(0, 1),
     grade |-> "F", recommendations |-> <<[category |-> "data", priority |-> "high"]>>]

\* An assessment that treats a table without rows as one whose six
\* dimensions score 0, by the rules of the other tables.
assessQualityEmptyByRule(t) ==
    LET scores == [d \in Range(Dimensions) |->
                      IF Len(t.rows) = 0 THEN Score(0, 1) ELSE dimensionScore(t, d)]
    IN Assessment(scores, Mean(scores, IF Len(t.rows) = 0 THEN 1 ELSE totalCells(t)))

\* assessQuality on a table.
assessQuality(t) ==
    IF Len(t.rows) = 0 THEN EmptyAssessment
    ELSE LET scores == [d \in Range(Dimensions) |-> dimensionScore(t, d)]
         IN Assessment(scores, Mean(scores, totalCells(t)))

\* The columns an analysis function requires.
requiredColumns(r, taskId) ==
    IF <<r, taskId>> = <<"business", "kpi">> THEN {"revenue"} ELSE {}

\* A dispatcher whose analysis functions raise when a column is missing.
runAnalysisRaising(t, r, taskId) ==
    IF <<r, taskId>> \notin DispatchTable THEN [error |-> "UnknownTaskError", flag |-> Null]
    ELSE IF ~(requiredColumns(r, taskId) \subseteq Range(t.columns))
      THEN [error |-> "InsufficientDataError", flag |-> Null]
    ELSE [error |-> Null, flag |-> "complete"]

\* runAnalysis on a table: the (role, taskId) pair's analysis function,
\* which degrades to a partial result when required columns are absent.
runAnalysisOn(t, r, taskId) ==
    IF <<r, taskId>> \notin DispatchTable THEN [error |-> "UnknownTaskError", flag |-> Null]
    ELSE IF ~(requiredColumns(r, taskId) \subseteq Range(t.columns))
      THEN [error |-> Null, flag |-> "insufficient_data"]
    ELSE [error |-> Null, flag |-> "complete"]

\* What a call on the table returned; NoOutcome before any call.
NoOutcome ==
    [kind |-> "none", op |-> Null, dropped |-> 0, twice |-> FALSE,
     error |-> Null, flag |-> Null,
     assessment |-> [EmptyAssessment EXCEPT !.grade = Null, !.recommendations = <<>>]]

\* clean with one operation.
CleanTable(op) ==
    /\ op \in {"remove_nulls", "drop_duplicates"}
    /\ table' = IF op = "remove_nulls" THEN remove_nulls(table) ELSE drop_duplicates(table)
    /\ outcome' = [NoOutcome EXCEPT !.kind = "clean", !.op = op,
                                    !.dropped = Len(table.rows) - Len(table'.rows),
                                    !.twice = (outcome.kind = "clean" /\ outcome.op = op)]
    /\ UNCHANGED <<pageVars, dcVars, netVars, storeVars, tasksVars, nlqVars,
                   qaLoading, assessment, qaError, isUploading, authVars>>

\* A transform adds a column of the given values.
WithColumn(name, values) ==
    /\ name \in Range(ColumnNames) \ Range(table.columns)
    /\ LET result == withColumn(table, name, values)
       IN /\ table' = result.table
          /\ outcome' = [NoOutcome EXCEPT !.kind = "transform", !.error = result.error]
    /\ UNCHANGED <<pageVars, dcVars, netVars, storeVars, tasksVars, nlqVars,
                   qaLoading, assessment, qaError, isUploading, authVars>>

\* assessQuality on the table.
AssessQuality ==
    /\ outcome' = [NoOutcome EXCEPT !.kind = "assessment", !.assessment = assessQuality(table)]
    /\ UNCHANGED <<pageVars, dcVars, netVars, storeVars, tasksVars, nlqVars,
                   qaLoading, assessment, qaError, table, isUploading, authVars>>

\* runAnalysis on the table.
RunAnalysis(r, taskId) ==
    /\ LET result == runAnalysisOn(table, r, taskId)
       IN outcome' = [NoOutcome EXCEPT !.kind = "analysis", !.op = taskId,
                                       !.error = result.error, !.flag = result.flag]
    /\ UNCHANGED <<pageVars, dcVars, netVars, storeVars, tasksVars, nlqVars,
                   qaLoading, assessment, qaError, table, isUploading, authVars>>

----------------------------------------------------------------------------
\* DataCleaning component (components/analysis/DataCleaning.tsx)

\* The cards of the cleaning screen, in display order.
cleaningActions ==
    <<"remove-nulls", "normalize", "one-hot-encode", "drop-duplicates",
      "aggregate", "impute", "feature-engineering", "data-validation">>

\* The card the user toggles while walking through the page.
PageCards == {"remove-nulls"}

\* The first n cards.
FirstCards(n) == {cleaningActions[i] : i \in 1..Min(n, Len(cleaningActions))}

\* Front-end action id -> back-end operation; Null where the map has no entry.
operationMap(id) ==
    CASE id = "remove-nulls"        -> "remove_nulls"
      [] id = "drop-duplicates"     -> "drop_duplicates"
      [] id = "impute"              -> "impute_missing"
      [] id = "normalize"           -> "normalize_data"
      [] id = "one-hot-encode"      -> "one_hot_encode"
      [] id = "aggregate"           -> "aggregate_data"
      [] id = "feature-engineering" -> "feature_engineering"
      [] id = "data-validation"     -> "data_validation"
      [] OTHER                      -> Null

\* A toggle that puts a newly selected card first.
toggleActionPrepends(prev, actionId) ==
    IF actionId \in Range(prev)
      THEN SelectSeq(prev, LAMBDA id : id # actionId)
      ELSE <<actionId>> \o prev

\* prev.includes(id) ? prev.filter(x => x !== id) : [...prev, id]
toggleAction(prev, actionId) ==
    IF actionId \in Range(prev)
      THEN SelectSeq(prev, LAMBDA id : id # actionId)
      ELSE Append(prev, actionId)

\* selectedActions.map(id => operationMap[id]).filter(Boolean)
operationsOf(selected) ==
    SelectSeq([i \in DOMAIN selected |-> operationMap(selected[i])],
              LAMBDA op : op # Null)

\* The page renders; reading preview.length of an undefined preview while
\* rendering step 3 throws and takes the page down.
Rendered == ~(currentStep = 3 /\ ~preview.def)

\* The cleaning screen is on the page.
DataCleaningMounted == currentStep = 2 /\ sessionId # Null

\* `cleanedCount < originalCount * 0.8`
ReducedTooMuch(originalCount, cleanedCount) == 10 * cleanedCount < 8 * originalCount

CleaningFailed(statusText) == <<"Cleaning failed: ", statusText>>
ReductionWarning == <<"Warning: Data cleaning removed rows">>

\* A card is clicked.
ToggleAction(actionId) ==
    /\ DataCleaningMounted
    /\ actionId \in Range(cleaningActions)
    /\ selectedActions' = toggleAction(selectedActions, actionId)
    /\ UNCHANGED <<asideVars, nlqVars, tasksVars, pageVars, isProcessing, cleanedData, originalData, dcError,
                   netVars, storeVars>>

\* "Apply Selected" is clicked: the handler up to its fetch.
HandleApplySelected ==
    /\ DataCleaningMounted
    /\ ~isProcessing
    /\ Len(selectedActions) # 0
    /\ Len(operationsOf(selectedActions)) # 0
    /\ nCalls < MaxCalls
    /\ isProcessing' = TRUE
    /\ dcError' = NoError
    /\ originalData' = IF NonEmpty(preview) THEN preview.rows ELSE originalData
    /\ nCalls' = nCalls + 1
    /\ calls' = [calls EXCEPT ![nCalls + 1] =
                    [IdleCall EXCEPT !.status = "sent",
                                     !.ops = operationsOf(selectedActions),
                                     !.session = sessionId,
                                     !.originalCount = Len(originalData)]]
    /\ UNCHANGED <<asideVars, nlqVars, tasksVars, pageVars, selectedActions, cleanedData, reads, nReads, storeVars>>

\* The fetch of call c is rejected (the server cannot be reached).
CleanRequestLost(c) ==
    /\ c \in IssuedCalls
    /\ calls[c].status = "sent"
    /\ calls' = [calls EXCEPT ![c].status = "responded",
                              ![c].ok = FALSE,
                              ![c].statusText = "Failed to fetch"]
    /\ UNCHANGED <<asideVars, nlqVars, tasksVars, pageVars, dcVars, nCalls, reads, nReads, storeVars>>

\* The message the handler shows for an answer that is not ok (it throws
\* `Cleaning failed: ${response.statusText}`), or for a rejected fetch.
FailureMessage(c) ==
    IF calls[c].statusText = "Failed to fetch"
      THEN <<"Failed to fetch">>
      ELSE CleaningFailed(calls[c].statusText)

\* The answer of call c arrives: the rest of handleApplySelected.
CleanSettled(c) ==
    /\ c \in IssuedCalls
    /\ calls[c].status = "responded"
    /\ calls' = [calls EXCEPT ![c] = SettledCall]
    /\ IF calls[c].orphan
         THEN UNCHANGED dcVars
         ELSE IF ~calls[c].ok
           THEN /\ dcError' = FailureMessage(c)
                /\ isProcessing' = FALSE
                /\ UNCHANGED <<selectedActions, cleanedData, originalData>>
           ELSE /\ cleanedData' = OrEmpty(calls[c].respPreview)
                /\ dcError' = IF ReducedTooMuch(calls[c].originalCount, calls[c].respRows)
                                THEN ReductionWarning ELSE dcError
                /\ selectedActions' = <<>>
                /\ isProcessing' = FALSE
                /\ UNCHANGED originalData
    /\ UNCHANGED <<asideVars, nlqVars, tasksVars, pageVars, nCalls, reads, nReads, storeVars>>

----------------------------------------------------------------------------
\* RoleAnalysis page (pages/RoleAnalysis.tsx), for a role that renders the
\* four-step workflow (the page returns another component for business_analyst)

\* The cleaning screen's state when it mounts with the given preview prop:
\* the useState defaults, then the preview effect.
MountedWith(prev) ==
    /\ selectedActions' = <<>>
    /\ isProcessing' = FALSE
    /\ cleanedData' = <<>>
    /\ originalData' = OrEmpty(prev)
    /\ dcError' = NoError

\* Calls whose screen is gone: their answers update nothing.
Orphaned == [c \in DOMAIN calls |->
                IF calls[c].status \in {"sent", "running", "responded"}
                  THEN [calls[c] EXCEPT !.orphan = TRUE] ELSE calls[c]]

\* What a change of step, session or preview does to the cleaning screen and
\* to the calls it has in flight.
ScreenFollows(step, sid, prev) ==
    LET was  == DataCleaningMounted
        will == step = 2 /\ sid # Null
    IN  CASE was /\ will ->
               /\ originalData' = IF prev # preview /\ NonEmpty(prev)
                                    THEN prev.rows ELSE originalData
               /\ UNCHANGED <<selectedActions, isProcessing, cleanedData, dcError>>
               /\ calls' = calls
          [] ~was /\ will ->
               /\ MountedWith(prev)
               /\ calls' = calls
          [] was /\ ~will ->
               /\ MountedWith(List(<<>>))
               /\ calls' = Orphaned
          [] OTHER ->
               /\ UNCHANGED dcVars
               /\ calls' = calls

\* useEffect on [currentStep, sessionId, role]: load the preview when the
\* cleaning step is shown without one.
PreviewEffectFires(step, sid, prev) ==
    /\ step # currentStep \/ sid # sessionId
    /\ step = 2 /\ sid # Null /\ ~NonEmpty(prev)

\* handlePreview up to its request.
PreviewRequested ==
    /\ nReads < MaxReads
    /\ nReads' = nReads + 1
    /\ reads' = [reads EXCEPT ![nReads + 1] =
                    [IdleRead EXCEPT !.status = "sent", !.kind = "preview"]]

\* The page shows `step`, with everything that follows from the change.
ShowStep(step, sid, prev) ==
    /\ currentStep' = step
    /\ sessionId' = sid
    /\ preview' = prev
    /\ ScreenFollows(step, sid, prev)
    /\ IF PreviewEffectFires(step, sid, prev)
         THEN PreviewRequested
         ELSE UNCHANGED <<reads, nReads>>
    /\ UNCHANGED <<asideVars, nlqVars, tasksVars, nCalls, storeVars>>

\* A file is dropped or chosen on step 1: the placeholder upload.  The
\* handler awaits nothing for the roles that render the workflow, so the
\* setIsUploading(true) of its first line is followed in the same run by
\* the setIsUploading(false) of its finally block.
HandleFileUpload ==
    /\ currentStep = 1
    /\ isUploading' = FALSE
    /\ uploadedFile' = TRUE
    /\ columns' = List(<<>>)
    /\ pageError' = NoError
    /\ startedOver' = FALSE
    /\ ShowStep(2, DemoSession, List(<<>>))

\* A read request is rejected; the api wrapper turns that into {error}.
ReadRequestLost(r) ==
    /\ r \in IssuedReads
    /\ reads[r].status = "sent"
    /\ reads' = [reads EXCEPT ![r].status = "responded",
                              ![r].ok = FALSE,
                              ![r].error = "Network Error"]
    /\ UNCHANGED <<asideVars, nlqVars, tasksVars, pageVars, dcVars, calls, nCalls, nReads, storeVars>>

\* What handlePreview stores from an answer: response.preview, which an
\* {error} answer does not have.
PreviewFrom(r) ==
    IF reads[r].ok THEN List(PreviewOf(reads[r].saw)) ELSE UndefinedList
ColumnsFrom(r) ==
    IF reads[r].ok THEN List(<<"columns">>) ELSE UndefinedList

\* The answer of preview request r arrives: the rest of handlePreview.
PreviewSettled(r) ==
    /\ r \in IssuedReads
    /\ reads[r].status = "responded"
    /\ reads[r].kind = "preview"
    /\ reads' = [reads EXCEPT ![r] = SettledRead]
    /\ IF Rendered
         THEN /\ preview' = PreviewFrom(r)
              /\ columns' = ColumnsFrom(r)
              /\ ScreenFollows(currentStep, sessionId, PreviewFrom(r))
         ELSE UNCHANGED <<preview, columns, dcVars, calls>>
    /\ UNCHANGED <<asideVars, nlqVars, tasksVars, currentStep, uploadedFile, sessionId, pageError, startedOver,
                   nCalls, nReads, storeVars>>

\* "Continue" on the cleaning screen: onComplete(cleanedData).
CleaningComplete ==
    /\ DataCleaningMounted
    /\ Len(cleanedData) > 0
    /\ ShowStep(3, sessionId, List(cleanedData))
    /\ UNCHANGED <<asideVars, nlqVars, tasksVars, uploadedFile, columns, pageError, startedOver>>

\* "Continue to Insights" on step 3.
ContinueToInsights ==
    /\ currentStep = 3 /\ sessionId # Null /\ Rendered
    /\ ShowStep(4, sessionId, preview)
    /\ UNCHANGED <<asideVars, nlqVars, tasksVars, uploadedFile, columns, pageError, startedOver>>

\* "Back to Upload" on step 2, "Back to Clean & Prepare" on step 3,
\* "Back to Analysis" on step 4.
Back ==
    /\ currentStep \in 2..4 /\ sessionId # Null /\ Rendered
    /\ ShowStep(currentStep - 1, sessionId, preview)
    /\ UNCHANGED <<asideVars, nlqVars, tasksVars, uploadedFile, columns, pageError, startedOver>>

\* "Start Over" on steps 2, 3 and 4.
StartOver ==
    /\ currentStep \in 2..4 /\ sessionId # Null /\ Rendered
    /\ startedOver' = TRUE
    /\ ShowStep(1, sessionId, preview)
    /\ UNCHANGED <<asideVars, nlqVars, tasksVars, uploadedFile, columns, pageError>>

\* A step indicator that goes to any step.
StepIndicatorAnywhere(step) ==
    /\ Rendered
    /\ step \in 1..4
    /\ step # currentStep
    /\ ShowStep(step, sessionId, preview)
    /\ UNCHANGED <<asideVars, nlqVars, tasksVars, uploadedFile, columns, pageError, startedOver>>

\* The step indicator: only to the current or an earlier step.
StepIndicator(step) ==
    /\ Rendered
    /\ step \in 1..4
    /\ currentStep >= step
    /\ step # currentStep
    /\ ShowStep(step, sessionId, preview)
    /\ UNCHANGED <<asideVars, nlqVars, tasksVars, uploadedFile, columns, pageError, startedOver>>

----------------------------------------------------------------------------
\* Spec: the page with its cleaning screen, against the session store

\* The store before the page is opened: it may or may not hold the session
\* the placeholder upload names.
StoreInit ==
    /\ sessionExists \in BOOLEAN
    /\ \E n \in 0..MaxRows :
         originalDataset = IF sessionExists THEN Dataset(<<>>, n) ELSE NoDataset
    /\ currentDataset = originalDataset
    /\ cleaningHistory = <<>>
    /\ writer = 0
    /\ readers = {}

\* The task list is not on the page.
TasksIdle ==
    /\ role = "general"
    /\ activeTask = Null
    /\ tasksProcessing = FALSE
    /\ completedTasks = <<>>
    /\ analysisResults = NoResult

\* Nothing has been asked.
NLQIdle ==
    /\ isLoading = FALSE
    /\ response = NoResponse
    /\ nlqError = NoError
    /\ queryHistory = <<>>
    /\ insights = <<>>
    /\ isProcessingInsight = FALSE
    /\ queries = [k \in 1..MaxQueries |-> IdleQuery]
    /\ nQueries = 0

\* The quality panel is not shown, and the engine has no table at hand.
\* AuthProvider's useState defaults, with no token in localStorage: the mount
\* effect finds nothing to validate.
AuthIdle ==
    /\ user = [of |-> Null]
    /\ sessionToken = Null
    /\ isAuthenticated = FALSE
    /\ localStorageToken = Null
    /\ validation = [pc |-> "idle", token |-> Null]
    /\ signIn = [pc |-> "idle", kind |-> Null]
    /\ nSignIns = 0
    /\ signOut = [pc |-> "idle", token |-> Null]

AsideIdle ==
    /\ qaLoading = FALSE
    /\ assessment = NoAssessment
    /\ qaError = NoError
    /\ table = NoTable
    /\ outcome = NoOutcome
    /\ isUploading = FALSE
    /\ AuthIdle

Init ==
    /\ currentStep = 1
    /\ uploadedFile = FALSE
    /\ sessionId = Null
    /\ preview = List(<<>>)
    /\ columns = List(<<>>)
    /\ pageError = NoError
    /\ startedOver = FALSE
    /\ selectedActions = <<>>
    /\ isProcessing = FALSE
    /\ cleanedData = <<>>
    /\ originalData = <<>>
    /\ dcError = NoError
    /\ calls = [c \in 1..MaxCalls |-> IdleCall]
    /\ nCalls = 0
    /\ reads = [r \in 1..MaxReads |-> IdleRead]
    /\ nReads = 0
    /\ StoreInit
    /\ TasksIdle
    /\ NLQIdle
    /\ AsideIdle

StoreNext ==
    \/ \E c \in 1..MaxCalls : StoreBeginClean(c)
    \/ \E c \in 1..MaxCalls : StoreApplyOperation(c)
    \/ \E c \in 1..MaxCalls : StoreFinishClean(c)
    \/ \E r \in 1..MaxReads : StoreBeginRead(r)
    \/ \E r \in 1..MaxReads : StoreFinishRead(r)

Next ==
    \/ HandleFileUpload
    \/ \E a \in PageCards : ToggleAction(a)
    \/ nCalls < PageCalls /\ HandleApplySelected
    \/ \E c \in 1..MaxCalls : CleanRequestLost(c)
    \/ \E c \in 1..MaxCalls : CleanSettled(c)
    \/ CleaningComplete
    \/ ContinueToInsights
    \/ Back
    \/ StartOver
    \/ \E step \in 1..4 : StepIndicator(step)
    \/ \E r \in 1..MaxReads : ReadRequestLost(r)
    \/ \E r \in 1..MaxReads : PreviewSettled(r)
    \/ StoreNext

Spec == Init /\ [][Next]_vars

----------------------------------------------------------------------------
\* SpecClean: the cleaning screen alone, as it stands on step 2 once the
\* upload's preview request has been answered, against the session store

InitClean ==
    /\ StoreInit
    /\ currentStep = 2
    /\ uploadedFile = TRUE
    /\ sessionId = DemoSession
    /\ preview = IF sessionExists THEN List(PreviewOf(originalDataset)) ELSE UndefinedList
    /\ columns = IF sessionExists THEN List(<<"columns">>) ELSE UndefinedList
    /\ pageError = NoError
    /\ startedOver = FALSE
    /\ selectedActions = <<>>
    /\ isProcessing = FALSE
    /\ cleanedData = <<>>
    /\ originalData = OrEmpty(preview)
    /\ dcError = NoError
    /\ calls = [c \in 1..MaxCalls |-> IdleCall]
    /\ nCalls = 0
    /\ reads = [r \in 1..MaxReads |-> IdleRead]
    /\ nReads = 0
    /\ TasksIdle
    /\ NLQIdle
    /\ AsideIdle

NextClean ==
    \/ \E a \in FirstCards(MaxCards) : ToggleAction(a)
    \/ HandleApplySelected
    \/ \E c \in 1..MaxCalls : CleanRequestLost(c)
    \/ \E c \in 1..MaxCalls : CleanSettled(c)
    \/ \E c \in 1..MaxCalls : StoreBeginClean(c)
    \/ \E c \in 1..MaxCalls : StoreApplyOperation(c)
    \/ \E c \in 1..MaxCalls : StoreFinishClean(c)

SpecClean == InitClean /\ [][NextClean]_vars

----------------------------------------------------------------------------
\* RoleSpecificTasks component (components/analysis/RoleSpecificTasks.tsx)
\* with RoleAnalysis.handleAnalysis as its onAnalysis

\* The role catalogue's ids (data/roles.ts).
roles ==
    <<"business_analyst", "research-eda", "marketing", "finance",
      "predictive-modeling", "healthcare", "ecommerce", "general">>

\* roleTasksMap[role.id] || roleTasksMap['general']
tasks == IF role \in DOMAIN roleTasksMap THEN roleTasksMap[role] ELSE roleTasksMap["general"]

\* roleMapping[role.id] || role.id
backendRole == IF roleMapping(role) # Null THEN roleMapping(role) ELSE role

\* The hasData prop: preview.length > 0 && sessionId !== null
hasData == NonEmpty(preview) /\ sessionId # Null

\* The task list is on the page.
TasksMounted == currentStep = 3 /\ preview.def

\* getTaskStatus(taskId)
getTaskStatus(taskId) ==
    IF ~hasData THEN "pending"
    ELSE IF taskId \in Range(completedTasks) THEN "completed"
    ELSE IF activeTask = taskId /\ tasksProcessing THEN "running"
    ELSE "pending"

\* A task card is clicked: handleRunTask up to the request handleAnalysis sends.
HandleRunTask(taskId) ==
    /\ TasksMounted
    /\ taskId \in Range(tasks)
    /\ hasData
    /\ nReads < MaxReads
    /\ activeTask' = taskId
    /\ tasksProcessing' = TRUE
    /\ nReads' = nReads + 1
    /\ reads' = [reads EXCEPT ![nReads + 1] =
                    [IdleRead EXCEPT !.status = "sent", !.kind = "analysis",
                                     !.role = backendRole, !.task = taskId]]
    /\ UNCHANGED <<asideVars, nlqVars, pageVars, dcVars, calls, nCalls, storeVars,
                   role, completedTasks, analysisResults>>

\* The answer of analysis request r arrives: the rest of handleAnalysis
\* (store the result, or show the error and swallow it), then the rest of
\* handleRunTask.
AnalysisSettled(r) ==
    /\ r \in IssuedReads
    /\ reads[r].status = "responded"
    /\ reads[r].kind = "analysis"
    /\ reads' = [reads EXCEPT ![r] = SettledRead]
    /\ IF reads[r].ok
         THEN /\ analysisResults' = AnalysisResult(reads[r].role, reads[r].task, reads[r].saw)
              /\ pageError' = pageError
         ELSE /\ analysisResults' = analysisResults
              /\ pageError' = <<reads[r].error>>
    /\ completedTasks' = Append(completedTasks, reads[r].task)
    /\ tasksProcessing' = FALSE
    /\ UNCHANGED <<asideVars, nlqVars, currentStep, uploadedFile, sessionId, preview, columns, startedOver,
                   dcVars, calls, nCalls, nReads, storeVars, role, activeTask>>

----------------------------------------------------------------------------
\* SpecTasks: the general analyst's task list on step 3, reached after one
\* successful clean, with none, one or two clean calls of cleaning screens
\* the user has left still on their way to the store

\* A call a cleaning screen sent before the user left it.
LeftBehind ==
    [IdleCall EXCEPT !.status = "sent",
                     !.ops = <<"normalize_data", "remove_nulls">>,
                     !.session = DemoSession,
                     !.orphan = TRUE]

\* The store after one successful clean of an uploaded table.
CleanedOnce ==
    /\ sessionExists = TRUE
    /\ \E m \in 1..MaxRows : \E n \in 1..m :
         /\ originalDataset = Dataset(<<>>, m)
         /\ currentDataset = Dataset(<<"remove_nulls">>, n)
    /\ cleaningHistory = <<"remove_nulls">>
    /\ writer = 0
    /\ readers = {}

\* The page on a step after cleaning, showing the cleaned preview, with
\* nCalls calls of cleaning screens the user has left still on their way.
PageAfterCleaning(step) ==
    /\ currentStep = step
    /\ uploadedFile = TRUE
    /\ sessionId = DemoSession
    /\ preview = List(PreviewOf(currentDataset))
    /\ columns = List(<<"columns">>)
    /\ pageError = NoError
    /\ startedOver = FALSE
    /\ selectedActions = <<>>
    /\ isProcessing = FALSE
    /\ cleanedData = <<>>
    /\ originalData = <<>>
    /\ dcError = NoError
    /\ calls = [c \in 1..MaxCalls |-> IF c <= nCalls THEN LeftBehind ELSE IdleCall]
    /\ reads = [r \in 1..MaxReads |-> IdleRead]
    /\ nReads = 0

InitTasks ==
    /\ CleanedOnce
    /\ nCalls \in {0, 1, 2}
    /\ PageAfterCleaning(3)
    /\ role = "general"
    /\ activeTask = Null
    /\ tasksProcessing = FALSE
    /\ completedTasks = <<>>
    /\ analysisResults = NoResult
    /\ NLQIdle
    /\ AsideIdle

\* The task list and the analysis calls it sends.
NextAnalysis ==
    \/ \E taskId \in Range(tasks) : HandleRunTask(taskId)
    \/ \E r \in 1..MaxReads : ReadRequestLost(r)
    \/ \E r \in 1..MaxReads : AnalysisSettled(r)
    \/ \E r \in 1..MaxReads : StoreBeginRead(r)
    \/ \E r \in 1..MaxReads : StoreFinishRead(r)

NextTasks ==
    \/ NextAnalysis
    \/ \E c \in 1..MaxCalls : CleanRequestLost(c)
    \/ \E c \in 1..MaxCalls : CleanSettled(c)
    \/ \E c \in 1..MaxCalls : StoreBeginClean(c)
    \/ \E c \in 1..MaxCalls : StoreApplyOperation(c)
    \/ \E c \in 1..MaxCalls : StoreFinishClean(c)

SpecTasks == InitTasks /\ [][NextTasks]_vars

----------------------------------------------------------------------------
\* SpecDispatch: the task list on step 3, given any role of the catalogue

InitDispatch ==
    /\ CleanedOnce
    /\ nCalls = 0
    /\ PageAfterCleaning(3)
    /\ role \in Range(roles)
    /\ activeTask = Null
    /\ tasksProcessing = FALSE
    /\ completedTasks = <<>>
    /\ analysisResults = NoResult
    /\ NLQIdle
    /\ AsideIdle

SpecDispatch == InitDispatch /\ [][NextAnalysis]_vars

----------------------------------------------------------------------------
\* SpecRerun: the general analyst's task list on step 3 after one task has
\* been run and has answered, with none or one clean call left behind

\* The task list and the page after taskId has run successfully.
RanEarlier(taskId) ==
    /\ activeTask = taskId
    /\ tasksProcessing = FALSE
    /\ completedTasks = <<taskId>>
    /\ analysisResults = AnalysisResult(backendRole, taskId, currentDataset)

InitRerun ==
    /\ CleanedOnce
    /\ nCalls \in {0, 1}
    /\ PageAfterCleaning(3)
    /\ role = "general"
    /\ \E taskId \in Range(tasks) : RanEarlier(taskId)
    /\ NLQIdle
    /\ AsideIdle

SpecRerun == InitRerun /\ [][NextTasks]_vars

----------------------------------------------------------------------------
\* SpecEngine: the pipeline's operations, the scoring engine and the
\* dispatcher called, in any order, on the table of an upload

InitEngine ==
    /\ CleanedOnce
    /\ nCalls = 0
    /\ PageAfterCleaning(3)
    /\ TasksIdle
    /\ NLQIdle
    /\ qaLoading = FALSE
    /\ assessment = NoAssessment
    /\ qaError = NoError
    /\ table \in Tables
    /\ outcome = NoOutcome
    /\ isUploading = FALSE
    /\ AuthIdle

NextEngine ==
    \/ \E op \in {"remove_nulls", "drop_duplicates"} : CleanTable(op)
    \/ \E name \in Range(ColumnNames) :
         \E values \in UNION {[1..n -> Cells] : n \in 0..MaxTableRows} :
           WithColumn(name, values)
    \/ AssessQuality
    \/ \E taskId \in Range(roleTasksMap["business-analyst"]) : RunAnalysis("business", taskId)

SpecEngine == InitEngine /\ [][NextEngine]_vars

----------------------------------------------------------------------------
\* DataQualityAssessment component (unnamed/part_004)

\* The Assess button is clicked: handleAssessment up to its request.
HandleAssessment ==
    /\ sessionId # Null
    /\ ~qaLoading
    /\ nReads < MaxReads
    /\ qaLoading' = TRUE
    /\ qaError' = NoError
    /\ nReads' = nReads + 1
    /\ reads' = [reads EXCEPT ![nReads + 1] =
                    [IdleRead EXCEPT !.status = "sent", !.kind = "quality"]]
    /\ UNCHANGED <<nlqVars, tasksVars, pageVars, dcVars, calls, nCalls, storeVars,
                   assessment, table, outcome, isUploading, authVars>>

\* A handleAssessment that drops the assessment it holds when the new one fails.
AssessmentSettledClearing(r) ==
    /\ r \in IssuedReads
    /\ reads[r].status = "responded"
    /\ reads[r].kind = "quality"
    /\ reads' = [reads EXCEPT ![r] = SettledRead]
    /\ IF reads[r].ok
         THEN /\ assessment' = QualityAssessment(reads[r].saw)
              /\ qaError' = qaError
         ELSE /\ assessment' = NoAssessment
              /\ qaError' = <<reads[r].error>>
    /\ qaLoading' = FALSE
    /\ UNCHANGED <<nlqVars, tasksVars, pageVars, dcVars, calls, nCalls, nReads, storeVars,
                   table, outcome, isUploading, authVars>>

\* The answer of assessment request r arrives: the rest of handleAssessment
\* (result.success: keep the new assessment; otherwise show the error).
AssessmentSettled(r) ==
    /\ r \in IssuedReads
    /\ reads[r].status = "responded"
    /\ reads[r].kind = "quality"
    /\ reads' = [reads EXCEPT ![r] = SettledRead]
    /\ IF reads[r].ok
         THEN /\ assessment' = QualityAssessment(reads[r].saw)
              /\ qaError' = qaError
         ELSE /\ assessment' = assessment
              /\ qaError' = <<reads[r].error>>
    /\ qaLoading' = FALSE
    /\ UNCHANGED <<nlqVars, tasksVars, pageVars, dcVars, calls, nCalls, nReads, storeVars,
                   table, outcome, isUploading, authVars>>

----------------------------------------------------------------------------
\* SpecQuality: the quality panel of a session after one successful clean,
\* holding no assessment or the one made before the clean, with none or one
\* clean call left behind

InitQuality ==
    /\ CleanedOnce
    /\ nCalls \in {0, 1}
    /\ PageAfterCleaning(3)
    /\ TasksIdle
    /\ NLQIdle
    /\ qaLoading = FALSE
    /\ assessment \in {NoAssessment, QualityAssessment(originalDataset)}
    /\ qaError = NoError
    /\ table = NoTable
    /\ outcome = NoOutcome
    /\ isUploading = FALSE
    /\ AuthIdle

NextQuality ==
    \/ HandleAssessment
    \/ \E r \in 1..MaxReads : AssessmentSettled(r)
    \/ \E r \in 1..MaxReads : ReadRequestLost(r)
    \/ \E r \in 1..MaxReads : StoreBeginRead(r)
    \/ \E r \in 1..MaxReads : StoreFinishRead(r)
    \/ \E c \in 1..MaxCalls : CleanRequestLost(c)
    \/ \E c \in 1..MaxCalls : CleanSettled(c)
    \/ \E c \in 1..MaxCalls : StoreBeginClean(c)
    \/ \E c \in 1..MaxCalls : StoreApplyOperation(c)
    \/ \E c \in 1..MaxCalls : StoreFinishClean(c)

SpecQuality == InitQuality /\ [][NextQuality]_vars

----------------------------------------------------------------------------
\* NaturalLanguageQuery component (components/analysis/NaturalLanguageQuery.tsx)
\* and the insight chat (RoleAnalysis.handleAIInsight behind AIInsights)

\* The questions the user asks, word by word.
Questions ==
    {<<"show", "revenue", "trends">>,
     <<"clean", "the", "data">>,
     <<"summarize", "compare", "trends">>}

\* Phrases a result's message may contain.
Phrases == {"No suitable columns", "insufficient data"}

\* /\b(clean|fix|remove errors|correct|repair|impute|standardize)\b/i
cleanIntent(question) ==
    \/ \E i \in DOMAIN question :
           question[i] \in {"clean", "fix", "correct", "repair", "impute", "standardize"}
    \/ \E i \in 1..(Len(question) - 1) :
           question[i] = "remove" /\ question[i + 1] = "errors"

\* A confidence that knows only 0, 30 and 80.
calculateConfidenceThreeValued(result) ==
    IF result.type = "error" THEN 0
    ELSE IF "No suitable columns" \in result.message THEN 30
    ELSE 80

\* calculateConfidence of the query box.
calculateConfidence(result) ==
    IF result.type = "error" THEN 0
    ELSE IF "No suitable columns" \in result.message THEN 30
    ELSE IF "insufficient data" \in result.message THEN 40
    ELSE 80

\* result.message || generateAnswerFromResult(result)
generateAnswerFromResult(result) ==
    IF result.message # {} THEN result.message
    ELSE IF result.type = "trend" THEN {"Trend analysis completed."}
    ELSE {"Analysis completed successfully."}

\* result.type || 'analysis'
intentOf(result) == IF result.type # Null THEN result.type ELSE "analysis"

\* The answer the api wrappers make of a request that failed.
FailedAnswer == NLQResult("error", {})

\* The query box's form is submitted: handleSubmit up to its request.
HandleSubmit(q) ==
    /\ q \in Questions
    /\ sessionId # Null
    /\ ~isLoading
    /\ nQueries < MaxQueries
    /\ isLoading' = TRUE
    /\ nlqError' = NoError
    /\ nQueries' = nQueries + 1
    /\ queries' = [queries EXCEPT ![nQueries + 1] =
                      [IdleQuery EXCEPT !.status = "sent", !.from = "nlq", !.question = q]]
    /\ UNCHANGED <<asideVars, pageVars, dcVars, netVars, storeVars, tasksVars,
                   response, queryHistory, insights, isProcessingInsight>>

\* [nlqResponse, ...prev.slice(0, 5)]: a history that drops nothing until it
\* holds six.
withNewestOfSix(prev, nlqResponse) ==
    <<nlqResponse>> \o SubSeq(prev, 1, Min(5, Len(prev)))

\* [nlqResponse, ...prev.slice(0, 4)]
withNewest(prev, nlqResponse) ==
    <<nlqResponse>> \o SubSeq(prev, 1, Min(4, Len(prev)))

\* A handleSubmit whose early return on an error answer is not covered by
\* the finally block.
QuerySettledReturningEarly(k) ==
    /\ k \in 1..nQueries
    /\ queries[k].status = "responded"
    /\ queries[k].from = "nlq"
    /\ queries' = [queries EXCEPT ![k] = SettledQuery]
    /\ LET result == queries[k].result
           nlqResponse == NLQResponse(queries[k].question,
                                      generateAnswerFromResult(result),
                                      calculateConfidence(result),
                                      intentOf(result))
       IN IF result.type = "error"
            THEN /\ nlqError' = <<"Failed to process query">>
                 /\ UNCHANGED <<response, queryHistory, isLoading>>
            ELSE /\ response' = nlqResponse
                 /\ queryHistory' = withNewest(queryHistory, nlqResponse)
                 /\ nlqError' = nlqError
                 /\ isLoading' = FALSE
    /\ UNCHANGED <<asideVars, pageVars, dcVars, netVars, storeVars, tasksVars,
                   insights, isProcessingInsight, nQueries>>

\* The answer of query k arrives: the rest of handleSubmit.
QuerySettled(k) ==
    /\ k \in 1..nQueries
    /\ queries[k].status = "responded"
    /\ queries[k].from = "nlq"
    /\ queries' = [queries EXCEPT ![k] = SettledQuery]
    /\ LET result == queries[k].result
           nlqResponse == NLQResponse(queries[k].question,
                                      generateAnswerFromResult(result),
                                      calculateConfidence(result),
                                      intentOf(result))
       IN IF result.type = "error"
            THEN /\ nlqError' = <<"Failed to process query">>
                 /\ UNCHANGED <<response, queryHistory>>
            ELSE /\ response' = nlqResponse
                 /\ queryHistory' = withNewest(queryHistory, nlqResponse)
                 /\ nlqError' = nlqError
    /\ isLoading' = FALSE
    /\ UNCHANGED <<asideVars, pageVars, dcVars, netVars, storeVars, tasksVars,
                   insights, isProcessingInsight, nQueries>>

\* An entry of the insight log.
Insight(question, text) == [question |-> question, response |-> text]

\* result.insight || result.message || 'Analysis completed successfully.'
insightText(result) ==
    IF result.type = "insight" THEN "insight" ELSE "Analysis completed successfully."

\* A question is asked in the insight chat: handleAIInsight up to its
\* request.  A cleaning question calls apiService.aiClean, which the api
\* object does not have: the call throws and the handler logs the error.
HandleAIInsight(q) ==
    /\ q \in Questions
    /\ currentStep = 4
    /\ sessionId # Null
    /\ ~isProcessingInsight
    /\ nQueries < MaxQueries
    /\ nQueries' = nQueries + 1
    /\ IF cleanIntent(q)
         THEN /\ insights' = Append(insights, Insight(q, "apiService.aiClean is not a function"))
              /\ pageError' = <<"apiService.aiClean is not a function">>
              /\ queries' = [queries EXCEPT ![nQueries + 1] = SettledQuery]
              /\ isProcessingInsight' = FALSE
         ELSE /\ isProcessingInsight' = TRUE
              /\ queries' = [queries EXCEPT ![nQueries + 1] =
                                [IdleQuery EXCEPT !.status = "sent", !.from = "insight",
                                                  !.question = q]]
              /\ UNCHANGED <<insights, pageError>>
    /\ UNCHANGED <<asideVars, currentStep, uploadedFile, sessionId, preview, columns, startedOver,
                   dcVars, netVars, storeVars, tasksVars,
                   isLoading, response, nlqError, queryHistory>>

\* The answer of insight request k arrives: the rest of handleAIInsight.
InsightSettled(k) ==
    /\ k \in 1..nQueries
    /\ queries[k].status = "responded"
    /\ queries[k].from = "insight"
    /\ queries' = [queries EXCEPT ![k] = SettledQuery]
    /\ insights' = Append(insights, Insight(queries[k].question, insightText(queries[k].result)))
    /\ isProcessingInsight' = FALSE
    /\ UNCHANGED <<asideVars, pageVars, dcVars, netVars, storeVars, tasksVars,
                   isLoading, response, nlqError, queryHistory, nQueries>>

\* The request of question k fails; the api wrapper answers in its place.
QueryRequestLost(k) ==
    /\ k \in 1..nQueries
    /\ queries[k].status = "sent"
    /\ queries' = [queries EXCEPT ![k].status = "responded", ![k].result = FailedAnswer]
    /\ UNCHANGED <<asideVars, pageVars, dcVars, netVars, storeVars, tasksVars,
                   isLoading, response, nlqError, queryHistory, insights,
                   isProcessingInsight, nQueries>>

----------------------------------------------------------------------------
\* NLQ engine (back end; modelled from the specification, sections 4.5 and 7)

\* The intents, in their fixed priority order (the order of declaration).
Intents ==
    <<"trend", "comparison", "summary", "correlation", "outlier", "distribution",
      "top_bottom", "percentage", "clustering", "data_types", "forecasting">>

\* The default intent.
DefaultIntent == "summary"

\* The vocabulary of an intent: the words of a question that match it.
Vocabulary(intent) ==
    CASE intent = "trend"        -> {"trend", "trends"}
      [] intent = "comparison"   -> {"compare", "versus"}
      [] intent = "summary"      -> {"summary", "summarize"}
      [] intent = "correlation"  -> {"correlation"}
      [] intent = "outlier"      -> {"outlier", "outliers"}
      [] intent = "distribution" -> {"distribution"}
      [] intent = "top_bottom"   -> {"top", "bottom"}
      [] intent = "percentage"   -> {"percentage"}
      [] intent = "clustering"   -> {"cluster", "clusters"}
      [] intent = "data_types"   -> {"types"}
      [] intent = "forecasting"  -> {"forecast"}
      [] OTHER                   -> {}

\* The text matches a pattern of the intent.
Matches(text, intent) == Range(text) \cap Vocabulary(intent) # {}

\* A classification in which the default intent is "analysis".
classifyDefaultAnalysis(text) ==
    LET specific == {i \in DOMAIN Intents :
                        Intents[i] # DefaultIntent /\ Matches(text, Intents[i])}
    IN IF specific = {} THEN "analysis"
       ELSE Intents[CHOOSE i \in specific : \A j \in specific : i <= j]

\* A classification in which the intent declared last wins, the default
\* intent included.
classifyLastDeclared(text) ==
    LET matched == {i \in DOMAIN Intents : Matches(text, Intents[i])}
    IN IF matched = {} THEN DefaultIntent
       ELSE Intents[CHOOSE i \in matched : \A j \in matched : i >= j]

\* classify(text) -> intent: the first intent in priority order, other than
\* the default, that the text matches; the default when there is none.
classify(text) ==
    LET specific == {i \in DOMAIN Intents :
                        Intents[i] # DefaultIntent /\ Matches(text, Intents[i])}
    IN IF specific = {} THEN DefaultIntent
       ELSE Intents[CHOOSE i \in specific : \A j \in specific : i <= j]

\* What the engine can answer to a query.
NLQResults == {NLQResult(t, m) : t \in {"error"} \cup Range(Intents), m \in SUBSET Phrases}

\* What the back end can answer to question k: the analysis of the
\* question's intent, or a failure.
AnswersFor(k) ==
    IF ~sessionExists THEN {FailedAnswer}
    ELSE IF queries[k].from = "nlq"
      THEN {NLQResult(t, m) : t \in {"error", classify(queries[k].question)},
                              m \in SUBSET Phrases}
    ELSE {NLQResult("insight", {}), FailedAnswer}

\* Question k is answered, once no clean call holds the session.
QueryAnswered(k) ==
    /\ k \in 1..nQueries
    /\ queries[k].status = "sent"
    /\ MayBeginRead
    /\ \E result \in AnswersFor(k) :
         queries' = [queries EXCEPT ![k].status = "responded", ![k].result = result]
    /\ UNCHANGED <<asideVars, pageVars, dcVars, netVars, storeVars, tasksVars,
                   isLoading, response, nlqError, queryHistory, insights,
                   isProcessingInsight, nQueries>>

----------------------------------------------------------------------------
\* SpecNLQ: the query box and the insight chat on step 4, after one
\* successful clean

InitNLQ ==
    /\ CleanedOnce
    /\ nCalls = 0
    /\ PageAfterCleaning(4)
    /\ TasksIdle
    /\ NLQIdle
    /\ AsideIdle

NextNLQ ==
    \/ \E q \in Questions : HandleSubmit(q)
    \/ \E q \in Questions : HandleAIInsight(q)
    \/ \E k \in 1..MaxQueries : QueryRequestLost(k)
    \/ \E k \in 1..MaxQueries : QueryAnswered(k)
    \/ \E k \in 1..MaxQueries : QuerySettled(k)
    \/ \E k \in 1..MaxQueries : InsightSettled(k)

SpecNLQ == InitNLQ /\ [][NextNLQ]_vars

----------------------------------------------------------------------------
\* Properties of the cleaning pipeline and the cleaning screen (SpecClean)

\* Sequence s without its i-th element.
Without(s, i) == SubSeq(s, 1, i - 1) \o SubSeq(s, i + 1, Len(s))

\* The mutating operations among the first k of a list, in list order.
AppliedPrefix(ops, k) == SelectSeq(SubSeq(ops, 1, k), Mutates)

\* Call c fails in this step with an operation that raised.
OperationRaised(c) ==
    /\ calls[c].status = "running"
    /\ calls'[c].status = "responded"
    /\ calls'[c].failedOp # Null

\* The handler of call c receives, in this step, the answer of a raised operation.
FailureReceived(c) ==
    /\ calls[c].status = "responded"
    /\ calls[c].failedOp # Null
    /\ ~calls[c].orphan
    /\ calls'[c].status = "settled"

\* C1: a clean call with a failing operation leaves currentDataset at its
\* pre-call value, and the name of the failing operation is reported to the
\* caller (the message the cleaning screen shows names it).
C1_FailedCleanRestoresAndNamesOperation ==
    [][\A c \in 1..MaxCalls :
         /\ OperationRaised(c) => currentDataset' = calls[c].before
         /\ FailureReceived(c) => calls[c].failedOp \in Range(dcError')]_vars

\* C2 (pipeline): while a call runs, the dataset is the pre-call dataset with
\* exactly the operations before `next` applied, in list order.
AppliedInOrder ==
    \A c \in 1..MaxCalls :
        calls[c].status = "running" =>
            /\ calls[c].next \in 1..(Len(calls[c].ops) + 1)
            /\ currentDataset.ops =
                   calls[c].before.ops \o AppliedPrefix(calls[c].ops, calls[c].next - 1)

\* C2 (screen): the selection changes only by a new card going after the
\* cards selected before it, by one card leaving with the others kept in
\* order, or by being emptied.
SelectionInSelectionOrder ==
    selectedActions' # selectedActions =>
        \/ selectedActions' = <<>>
        \/ \E a \in Range(cleaningActions) \ Range(selectedActions) :
               selectedActions' = Append(selectedActions, a)
        \/ \E i \in DOMAIN selectedActions :
               selectedActions' = Without(selectedActions, i)

\* C2 (screen): the list a new call carries is the selection, card by card.
SentListIsSelection ==
    nCalls' = nCalls + 1 =>
        /\ Len(calls'[nCalls'].ops) = Len(selectedActions)
        /\ \A i \in DOMAIN selectedActions :
               calls'[nCalls'].ops[i] = operationMap(selectedActions[i])

\* C2: within one clean call the operations are applied strictly in the
\* order supplied, each on the previous one's output, none reordered, skipped
\* or applied twice; and the list the cleaning screen sends is the user's
\* selection in selection order.
C2_OperationsAppliedInSelectionOrder ==
    /\ []AppliedInOrder
    /\ [][SelectionInSelectionOrder /\ SentListIsSelection]_vars

\* C2 witness: a call carrying the second card's operation before the first
\* card's has applied both.
C2_Witness ==
    \E c \in 1..MaxCalls :
        /\ calls[c].status = "running"
        /\ calls[c].ops = <<operationMap(cleaningActions[2]), operationMap(cleaningActions[1])>>
        /\ calls[c].next = 3
        /\ currentDataset.ops = calls[c].before.ops \o calls[c].ops

\* Call c succeeds in this step.
CleanSucceeded(c) ==
    /\ calls[c].status = "running"
    /\ calls'[c].status = "responded"
    /\ calls'[c].ok

\* C4 (log): the log changes only when a call succeeds, by that call's list
\* being appended; a failing call leaves it alone.
HistoryAppendsSuccessfulCalls ==
    /\ \A c \in 1..MaxCalls :
           CleanSucceeded(c) => cleaningHistory' = cleaningHistory \o calls[c].ops
    /\ cleaningHistory' # cleaningHistory => \E c \in 1..MaxCalls : CleanSucceeded(c)

\* C4 (dataset): between calls, the dataset is the uploaded one with exactly
\* the logged operations applied in log order, so only successful calls have
\* overwritten it.
DatasetMatchesHistory ==
    (sessionExists /\ writer = 0) =>
        currentDataset.ops = originalDataset.ops \o SelectSeq(cleaningHistory, Mutates)

\* C4: cleaningHistory is the concatenation, in call order, of the operation
\* lists of the calls that succeeded; a failed call appends nothing and only
\* a successful call overwrites currentDataset.
C4_HistoryIsConcatenationOfSuccessfulCalls ==
    /\ []DatasetMatchesHistory
    /\ [][HistoryAppendsSuccessfulCalls]_vars

\* C4 witness: a second successful call has been logged after a first one.
C4_Witness ==
    /\ nCalls = 2
    /\ calls[2].status = "responded" /\ calls[2].ok
    /\ Len(cleaningHistory) > Len(calls[2].ops)
    /\ cleaningHistory = SubSeq(cleaningHistory, 1, Len(cleaningHistory) - Len(calls[2].ops))
                            \o calls[2].ops

----------------------------------------------------------------------------
\* Properties of the store's scheduling (SpecTasks) and of task dispatch
\* (SpecDispatch)

\* C3 (exclusion): at most one clean call runs, and no read runs with it.
CleanRunsAlone ==
    \A c \in 1..MaxCalls :
        calls[c].status = "running" =>
            /\ writer = c
            /\ \A d \in 1..MaxCalls : calls[d].status = "running" => d = c
            /\ \A r \in 1..MaxReads : reads[r].status # "running"

\* C3 (observation): a read answers from the dataset as whole calls have
\* left it: no call is under way, and the dataset is the uploaded one with
\* exactly the logged operations applied.
ReadsSeeWholeCalls ==
    \A r \in 1..MaxReads :
        (reads[r].status = "running" /\ reads'[r].status = "responded") =>
            /\ writer = 0
            /\ reads'[r].saw.ops =
                   originalDataset.ops \o SelectSeq(cleaningHistory, Mutates)

\* C3: per session at most one cleaning call is in flight at a time, and no
\* read call runs while one is, so no call observes a dataset on which only
\* a prefix of the requested operations has been applied.
C3_CleaningCallsSerialized ==
    /\ []CleanRunsAlone
    /\ [][ReadsSeeWholeCalls]_vars

\* C3 witness: a clean call has applied the first of its two operations
\* while another clean call and an analysis call wait at the store.
C3_Witness ==
    \E c, d \in 1..MaxCalls : \E r \in 1..MaxReads :
        /\ calls[c].status = "running" /\ calls[c].next = 2
        /\ calls[d].status = "sent"
        /\ reads[r].status = "sent" /\ reads[r].kind = "analysis"

----------------------------------------------------------------------------
\* Properties of the session as the page holds it (Spec)

\* C5: a session exists only from a successful upload until the next start
\* over: once the user has started over, the page holds no session id and
\* nothing of the previous session's data.
C5_SessionEndsAtStartOver ==
    startedOver => (sessionId = Null /\ ~NonEmpty(preview) /\ ~NonEmpty(columns))

\* C6: the original dataset is fixed at upload: whatever was cleaned, and
\* also after going back to the cleaning step, what the cleaning screen
\* holds as the original data are rows of the uploaded table.
C6_OriginalFixedAtUpload ==
    /\ sessionExists => originalDataset.ops = <<>>
    /\ \A i \in DOMAIN originalData : originalData[i].of = originalDataset.ops

----------------------------------------------------------------------------
\* Properties of queries and the insight log (SpecNLQ)

\* The handler of question k receives its answer in this step.
QueryCompletes(k) ==
    /\ queries[k].status = "responded"
    /\ queries'[k].status = "settled"

\* C7: every query, whether it succeeds or fails, appends exactly one entry
\* to the log of its component (the query box's history gets one more entry,
\* the newest, for this query; the insight chat's log gets one more entry,
\* the last, for this question).
C7_EveryQueryIsLogged ==
    [][\A k \in 1..MaxQueries :
         QueryCompletes(k) =>
             IF queries[k].from = "nlq"
               THEN /\ Len(queryHistory') = Len(queryHistory) + 1
                    /\ queryHistory'[1].query = queries[k].question
               ELSE /\ Len(insights') = Len(insights) + 1
                    /\ insights'[Len(insights')].question = queries[k].question]_vars

\* C8: when the analysis behind a query fails, the query box holds an
\* NLQResponse for that query with intent "error" and confidence 0.
C8_FailureIsAnErrorResponse ==
    [][\A k \in 1..MaxQueries :
         (QueryCompletes(k) /\ queries[k].from = "nlq" /\ queries[k].result.type = "error") =>
             /\ response'.success
             /\ response'.query = queries[k].question
             /\ response'.intent = "error"
             /\ response'.confidence = 0]_vars

\* The confidence of a result, as amended: 0 for an error, else 30 when no
\* suitable columns were found, else 40 when the data was insufficient, else 80.
ConfidenceFor(result) ==
    CASE result.type = "error"                    -> 0
      [] result.type # "error" /\ "No suitable columns" \in result.message -> 30
      [] result.type # "error" /\ "No suitable columns" \notin result.message
           /\ "insufficient data" \in result.message -> 40
      [] OTHER                                    -> 80

\* C9 (as amended): the response built for an answered query carries the
\* confidence 30, 40 or 80 that its result calls for, every response held or
\* logged carries one of these, and 0 is computed for error results only.
C9_ConfidenceValues ==
    /\ [](\A i \in DOMAIN queryHistory : queryHistory[i].confidence \in {30, 40, 80})
    /\ [](response # NoResponse => response.confidence \in {30, 40, 80})
    /\ [](\A result \in NLQResults :
             calculateConfidence(result) = 0 <=> result.type = "error")
    /\ [][\A k \in 1..MaxQueries :
            (QueryCompletes(k) /\ queries[k].from = "nlq"
                               /\ queries[k].result.type # "error") =>
                /\ response'.confidence = ConfidenceFor(queries[k].result)
                /\ queryHistory'[1] = response']_vars

\* C9 witness: a response with confidence 40 is shown.
C9_Witness ==
    /\ response # NoResponse
    /\ response.confidence = 40
    /\ Len(queryHistory) > 0 /\ queryHistory[1] = response

\* C9 as stated: every response's confidence is 80, 30 or 0.
C9_OnlyEightyThirtyZero ==
    /\ \A i \in DOMAIN queryHistory : queryHistory[i].confidence \in {80, 30, 0}
    /\ response # NoResponse => response.confidence \in {80, 30, 0}

----------------------------------------------------------------------------
\* C11: analysisResults keeps, for each task id, the result of the most
\* recent run of that task

\* The page holds a result of task t.
HoldsResultOf(t) == analysisResults.task = t

\* C11: a result the page holds for a task stays held under that task's id,
\* whatever other tasks are run afterwards: running one task leaves the
\* entries of the other tasks in place, and re-running a task replaces
\* only its own entry.
C11_ResultsKeptPerTask ==
    [][\A t \in Range(tasks) : HoldsResultOf(t) => HoldsResultOf(t)']_vars

----------------------------------------------------------------------------
\* C12, C13: intent classification

\* The responses the query box holds or has logged.
Logged == Range(queryHistory) \cup (IF response = NoResponse THEN {} ELSE {response})

\* The intents whose patterns the text matches.
MatchedIntents(text) == {intent \in Range(Intents) : Matches(text, intent)}

\* The place of an intent in the priority order.
Priority(intent) == CHOOSE i \in DOMAIN Intents : Intents[i] = intent

----------------------------------------------------------------------------
\* C14, C15: idempotence of remove_nulls and drop_duplicates

\* The last call on the table was a clean with this operation.
JustApplied(op) == outcome.kind = "clean" /\ outcome.op = op

\* C14: once remove_nulls has been applied to a table, applying it again
\* drops no row: the table that remove_nulls returned loses no row to
\* remove_nulls, and a remove_nulls that follows a remove_nulls reports
\* zero rows dropped.
C14_RemoveNullsIdempotent ==
    JustApplied("remove_nulls") =>
        /\ Len(remove_nulls(table).rows) = Len(table.rows)
        /\ outcome.twice => outcome.dropped = 0

\* C14 witness: remove_nulls has dropped rows of a table and has left rows.
C14_Witness ==
    /\ JustApplied("remove_nulls")
    /\ outcome.dropped > 0
    /\ Len(table.rows) > 0

\* C15: drop_duplicates applied to its own output returns that output
\* unchanged, the same rows in the same order: the output holds each
\* value-tuple once, and a drop_duplicates that follows a drop_duplicates
\* drops nothing.
C15_DropDuplicatesIdempotent ==
    JustApplied("drop_duplicates") =>
        /\ drop_duplicates(table) = table
        /\ \A i, j \in DOMAIN table.rows : table.rows[i] = table.rows[j] => i = j
        /\ outcome.twice => outcome.dropped = 0

\* C15 witness: drop_duplicates has dropped a repeated row and has left two
\* rows or more.
C15_Witness ==
    /\ JustApplied("drop_duplicates")
    /\ outcome.dropped > 0
    /\ Len(table.rows) >= 2

----------------------------------------------------------------------------
\* C16, C17: the quality score and its grade

\* The table has just been assessed.
JustAssessed == outcome.kind = "assessment"

\* The grade the thresholds give a score.
GradeByThresholds(score) ==
    CASE score.num >= 90 * score.den                                  -> "A"
      [] score.num >= 80 * score.den /\ score.num < 90 * score.den    -> "B"
      [] score.num >= 70 * score.den /\ score.num < 80 * score.den    -> "C"
      [] score.num >= 60 * score.den /\ score.num < 70 * score.den    -> "D"
      [] score.num < 60 * score.den                                   -> "F"

\* The place of a grade, F lowest.
Rank(grade) ==
    CASE grade = "A" -> 5 [] grade = "B" -> 4 [] grade = "C" -> 3
      [] grade = "D" -> 2 [] grade = "F" -> 1

\* The tables the cleaning operations make of the table.
Neighbours == {table, remove_nulls(table), drop_duplicates(table)}

\* C16: the overallScore of an assessment lies in [0, 100], its grade is
\* the one the thresholds 90, 80, 70 and 60 give the score, and of two
\* datasets the one with the lower score never has the better grade.
C16_ScoreInRangeAndGradeByThresholds ==
    JustAssessed =>
        LET a == outcome.assessment
        IN /\ a.overallScore.den > 0
           /\ 0 <= a.overallScore.num
           /\ a.overallScore.num <= 100 * a.overallScore.den
           /\ a.grade = GradeByThresholds(a.overallScore)
           /\ \A t \in Neighbours :
                LET b == assessQuality(t)
                IN b.overallScore.num * a.overallScore.den
                       <= a.overallScore.num * b.overallScore.den
                   => Rank(b.grade) <= Rank(a.grade)

\* C16 witness: a table with rows was graded C, and cleaning it gives a
\* table of another grade.
C16_Witness ==
    /\ JustAssessed
    /\ Len(table.rows) > 0
    /\ outcome.assessment.grade = "C"
    /\ \E t \in Neighbours : assessQuality(t).grade # "C"

----------------------------------------------------------------------------
\* C19: analysis of a table that lacks the columns a task requires

\* The table has just been analysed.
JustAnalysed == outcome.kind = "analysis"

----------------------------------------------------------------------------
\* C20: the shape of the rows

----------------------------------------------------------------------------
\* C18: what an assessment changes

\* Assessment request r takes a step: it is sent, reaches the store, is
\* answered, or its answer is handled.
AssessmentStep(r) ==
    /\ reads'[r] # reads[r]
    /\ reads[r].kind = "quality" \/ reads'[r].kind = "quality"

\* C18: no step of an assessment changes currentDataset, originalDataset or
\* cleaningHistory, nor the results and logs of the session; when the
\* answer is handled, a successful assessment replaces the one held and a
\* failed assessment leaves the one held in place; and nothing else
\* changes the assessment held.
C18_AssessmentChangesOnlyTheAssessment ==
    [][/\ \A r \in 1..MaxReads :
            AssessmentStep(r) =>
                /\ UNCHANGED <<originalDataset, currentDataset, cleaningHistory,
                               sessionExists, analysisResults, insights, queryHistory>>
                /\ reads[r].status = "responded" =>
                       assessment' = IF reads[r].ok THEN QualityAssessment(reads[r].saw)
                                     ELSE assessment
                /\ reads[r].status # "responded" => assessment' = assessment
       /\ assessment' # assessment => \E r \in 1..MaxReads : AssessmentStep(r)]_vars

\* C18 witness: the assessment made before the clean has been replaced by
\* one of the cleaned dataset.
C18_Witness ==
    /\ ~qaLoading
    /\ nReads = 1
    /\ reads[1] = SettledRead
    /\ assessment = QualityAssessment(currentDataset)
    /\ currentDataset # originalDataset
    /\ qaError = NoError

----------------------------------------------------------------------------
\* C21: which tasks are recorded as completed

\* The answer of analysis request r is handled in this step.
AnalysisCompletes(r) ==
    /\ reads[r].status = "responded"
    /\ reads[r].kind = "analysis"
    /\ reads'[r].status = "settled"

\* C21: a task is added to completedTasks only when its analysis request
\* succeeded: handling a failed answer leaves completedTasks as it was.
C21_OnlySuccessfulTasksAreCompleted ==
    [][\A r \in 1..MaxReads :
         AnalysisCompletes(r) =>
             IF reads[r].ok
               THEN completedTasks' = Append(completedTasks, reads[r].task)
               ELSE completedTasks' = completedTasks]_vars

----------------------------------------------------------------------------
\* C27: the status of a task whose request is in flight

\* Analysis request r has been sent and its answer has not been handled.
InFlight(r) ==
    /\ reads[r].kind = "analysis"
    /\ reads[r].status \in {"sent", "running", "responded"}

\* C27: every task that has an analysis request in flight is reported as
\* running.
C27_TaskInFlightIsRunning ==
    \A r \in 1..MaxReads : InFlight(r) => getTaskStatus(reads[r].task) = "running"

----------------------------------------------------------------------------
\* C24: preview and columns are lists

\* C24: the page's preview and columns are always lists, possibly empty,
\* never undefined.
C24_PreviewAndColumnsAreLists == preview.def /\ columns.def

----------------------------------------------------------------------------
\* C26: the workflow step

\* C26: the step is between 1 and 4 and a sessionId is set on every step
\* from 2 on; the step goes up only by one, from 1 to 2 by an upload, from 2
\* to 3 by the completion of cleaning (the cleaned rows become the preview)
\* and from 3 to 4; every other change of step, the step indicator's
\* included, goes to an earlier step.
C26_StepsInOrder ==
    /\ [](currentStep \in 1..4)
    /\ [](currentStep >= 2 => sessionId # Null)
    /\ [][currentStep' > currentStep =>
            /\ currentStep' = currentStep + 1
            /\ currentStep = 1 => (uploadedFile' /\ sessionId' = DemoSession)
            /\ currentStep = 2 => (Len(cleanedData) > 0 /\ preview' = List(cleanedData))]_vars

\* C26 witness: step 4 is shown, with the cleaned rows as preview.
C26_Witness ==
    /\ currentStep = 4
    /\ sessionId # Null
    /\ NonEmpty(preview)

----------------------------------------------------------------------------
\* C25: one back-end role name per front-end role id

\* The roleMapping table of the natural-language-query screen and of the
\* quality-assessment screen (the two tables are the same, entry for entry):
\* the finance entry is keyed 'financial'.  Null where the table has no entry.
queryRoleMapping(id) ==
    CASE id = "business-analyst"    -> "business"
      [] id = "research-eda"        -> "research"
      [] id = "marketing"           -> "marketing"
      [] id = "financial"           -> "financial"
      [] id = "predictive-modeling" -> "predictive"
      [] id = "healthcare"          -> "healthcare"
      [] id = "ecommerce"           -> "ecommerce"
      [] id = "general"             -> "general"
      [] OTHER                      -> Null

\* const backendRole = roleMapping[id] || id, on each of the four screens.
screenRole(screen, id) ==
    LET mapped == IF screen \in {"cleaning", "analysis"}
                    THEN roleMapping(id)
                    ELSE queryRoleMapping(id)
    IN  IF mapped # Null THEN mapped ELSE id

\* C25: the cleaning, analysis, quality-assessment and natural-language-query
\* screens translate the role id of the page to the same back-end role name.
C25_OneBackendRolePerRoleId ==
    \A s1, s2 \in {"cleaning", "analysis", "quality", "query"} :
        screenRole(s1, role) = screenRole(s2, role)

----------------------------------------------------------------------------
\* C28: the query history (SpecHistory: the query box after earlier queries)

\* The response handleSubmit stored for an earlier question the engine
\* answered without a remark.
AnsweredEarlier(q) ==
    LET result == NLQResult(classify(q), {})
    IN  NLQResponse(q, generateAnswerFromResult(result),
                    calculateConfidence(result), intentOf(result))

\* The query box after n earlier answered queries, which asked two questions
\* in turn.
InitHistory ==
    /\ CleanedOnce
    /\ nCalls = 0
    /\ PageAfterCleaning(4)
    /\ TasksIdle
    /\ AsideIdle
    /\ \E n \in 0..HistoryLimit : \E q1, q2 \in Questions :
          /\ q1 # q2
          /\ queryHistory = [i \in 1..n |-> AnsweredEarlier(IF i % 2 = 1 THEN q1 ELSE q2)]
    /\ response = IF queryHistory = <<>> THEN NoResponse ELSE Head(queryHistory)
    /\ isLoading = FALSE
    /\ nlqError = NoError
    /\ insights = <<>>
    /\ isProcessingInsight = FALSE
    /\ queries = [k \in 1..MaxQueries |-> IdleQuery]
    /\ nQueries = 0

NextHistory ==
    \/ \E q \in Questions : HandleSubmit(q)
    \/ \E k \in 1..MaxQueries : QueryRequestLost(k)
    \/ \E k \in 1..MaxQueries : QueryAnswered(k)
    \/ \E k \in 1..MaxQueries : QuerySettled(k)

SpecHistory == InitHistory /\ [][NextHistory]_vars

\* C28: queryHistory never holds more than 5 responses; it changes only when
\* a query is answered, and then the response to that query is put first and
\* the earlier responses follow it in the order they had, the oldest one
\* leaving when there were already 5; a query that fails leaves it as it was.
C28_HistoryIsTheFiveNewestFirst ==
    /\ [](Len(queryHistory) <= HistoryLimit)
    /\ [][\A k \in 1..MaxQueries :
            (QueryCompletes(k) /\ queries[k].from = "nlq") =>
                IF queries[k].result.type = "error"
                  THEN queryHistory' = queryHistory
                  ELSE /\ Head(queryHistory').query = queries[k].question
                       /\ Head(queryHistory') = response'
                       /\ Tail(queryHistory') =
                            IF Len(queryHistory) < HistoryLimit
                              THEN queryHistory
                              ELSE SubSeq(queryHistory, 1, HistoryLimit - 1)]_vars
    /\ [][queryHistory' # queryHistory =>
            \E k \in 1..MaxQueries : QueryCompletes(k)]_vars

\* Two queries were answered one after the other on a history that was
\* full: the history still holds five, the two new responses first.
C28_Witness ==
    /\ Len(queryHistory) = HistoryLimit
    /\ nQueries = 2
    /\ \A k \in 1..2 : queries[k].status = "settled"
    /\ nlqError = NoError
    /\ queryHistory[1].query # queryHistory[3].query
    /\ queryHistory[2].query # queryHistory[4].query
    /\ queryHistory[3].query = queryHistory[5].query

----------------------------------------------------------------------------
\* C30: the data-reduction warning (SpecClean)

\* C30: when a clean call of the screen succeeds, the screen shows the
\* data-reduction warning exactly if the dataset's row count after the call
\* is below 80% of its row count before the call.
C30_WarningExactlyAboveTwentyPercent ==
    [][\A c \in 1..MaxCalls :
         (/\ calls[c].status = "responded"
          /\ calls'[c].status = "settled"
          /\ calls[c].ok
          /\ ~calls[c].orphan)
         => ((dcError' = ReductionWarning)
               <=> 10 * calls[c].respRows < 8 * calls[c].before.rows)]_vars

----------------------------------------------------------------------------
\* AuthProvider (contexts/AuthContext.tsx).  Tokens: "stored", the token
\* localStorage holds when the page is first loaded, and the access_tokens
\* the back end issues.  A user [of |-> t] is the user token t belongs to;
\* [of |-> Null] is no user.

\* The access_token of the n-th login or register call, if it succeeds.
access_token(n) == <<"issued-1", "issued-2", "issued-3", "issued-4">>[n]

\* The four assignments that end logout (lines 95-98).
clearSession ==
    /\ sessionToken' = Null
    /\ user' = [of |-> Null]
    /\ isAuthenticated' = FALSE
    /\ localStorageToken' = Null

\* validateSession(token), started by the effect of the first render, goes on
\* after one of its two awaits.  `answer` is what the awaited call gave:
\* apiService.validateSession resolves with valid true or false or throws,
\* apiService.getProfile resolves or throws.  The logout it calls is the one
\* of the first render, whose sessionToken is null: it awaits nothing and
\* clears the session at once.
ValidateSession(answer) ==
    /\ answer \in {"valid", "invalid", "error"}
    /\ \/ /\ validation.pc = "validating"
          /\ IF answer = "valid"
               THEN /\ sessionToken' = validation.token
                    /\ validation' = [validation EXCEPT !.pc = "profile"]
                    /\ UNCHANGED <<user, isAuthenticated, localStorageToken>>
               ELSE /\ clearSession
                    /\ validation' = [validation EXCEPT !.pc = "done"]
       \/ /\ validation.pc = "profile"
          /\ answer # "invalid"
          /\ validation' = [validation EXCEPT !.pc = "done"]
          /\ IF answer = "valid"
               THEN /\ user' = [of |-> validation.token]
                    /\ isAuthenticated' = TRUE
                    /\ localStorageToken' = validation.token
                    /\ UNCHANGED sessionToken
               ELSE clearSession
    /\ UNCHANGED <<pageVars, dcVars, netVars, storeVars, tasksVars, nlqVars,
                   qaLoading, assessment, qaError, table, outcome, isUploading,
                   signIn, nSignIns, signOut>>

\* The login form (or the register form) is submitted: login or register up
\* to its request.  The forms are shown to a visitor who is not
\* authenticated, and are disabled while a submission is under way.
SignIn(kind) ==
    /\ kind \in {"login", "register"}
    /\ ~isAuthenticated
    /\ signIn.pc = "idle"
    /\ nSignIns < MaxSignIns
    /\ nSignIns' = nSignIns + 1
    /\ signIn' = [pc |-> "sent", kind |-> kind]
    /\ UNCHANGED <<pageVars, dcVars, netVars, storeVars, tasksVars, nlqVars,
                   qaLoading, assessment, qaError, table, outcome, isUploading,
                   user, sessionToken, isAuthenticated, localStorageToken,
                   validation, signOut>>

\* The answer of the login or register request arrives: with an
\* access_token the session is established, without one or with a throw the
\* call returns false.
SignInSettled(ok) ==
    /\ signIn.pc = "sent"
    /\ signIn' = [pc |-> "idle", kind |-> Null]
    /\ IF ok
         THEN /\ sessionToken' = access_token(nSignIns)
              /\ user' = [of |-> access_token(nSignIns)]
              /\ isAuthenticated' = TRUE
              /\ localStorageToken' = access_token(nSignIns)
         ELSE UNCHANGED <<user, sessionToken, isAuthenticated, localStorageToken>>
    /\ UNCHANGED <<pageVars, dcVars, netVars, storeVars, tasksVars, nlqVars,
                   qaLoading, assessment, qaError, table, outcome, isUploading,
                   validation, nSignIns, signOut>>

\* "Logout" is clicked in the header, which shows it to an authenticated
\* user: logout up to its request (or all of it, when the render it comes
\* from holds no sessionToken).
Logout ==
    /\ isAuthenticated
    /\ user # [of |-> Null]
    /\ signOut.pc = "idle"
    /\ IF sessionToken # Null
         THEN /\ signOut' = [pc |-> "sent", token |-> sessionToken]
              /\ UNCHANGED <<user, sessionToken, isAuthenticated, localStorageToken>>
         ELSE /\ clearSession
              /\ UNCHANGED signOut
    /\ UNCHANGED <<pageVars, dcVars, netVars, storeVars, tasksVars, nlqVars,
                   qaLoading, assessment, qaError, table, outcome, isUploading,
                   validation, signIn, nSignIns>>

\* The logout request is answered or fails (the failure is logged): the rest
\* of logout.
LogoutSettled ==
    /\ signOut.pc = "sent"
    /\ signOut' = [pc |-> "idle", token |-> Null]
    /\ clearSession
    /\ UNCHANGED <<pageVars, dcVars, netVars, storeVars, tasksVars, nlqVars,
                   qaLoading, assessment, qaError, table, outcome, isUploading,
                   validation, signIn, nSignIns>>

\* AuthProvider's state when the application is loaded: the useState
\* defaults, then the mount effect, which calls validateSession with the token
\* localStorage holds, if it holds one.
ProviderMounted(user0, sessionToken0, isAuthenticated0, validation0, signIn0, signOut0) ==
    /\ user0 = [of |-> Null]
    /\ sessionToken0 = Null
    /\ isAuthenticated0 = FALSE
    /\ validation0 = IF localStorageToken # Null
                       THEN [pc |-> "validating", token |-> localStorageToken]
                       ELSE [pc |-> "idle", token |-> Null]
    /\ signIn0 = [pc |-> "idle", kind |-> Null]
    /\ signOut0 = [pc |-> "idle", token |-> Null]

\* "Go to Login" of AuthGuard (window.location.href = '/'), or any reload:
\* the application is loaded anew.  localStorage stays; the calls of the page
\* that is left are dropped with it.
Reload ==
    /\ ProviderMounted(user', sessionToken', isAuthenticated', validation', signIn', signOut')
    /\ UNCHANGED <<pageVars, dcVars, netVars, storeVars, tasksVars, nlqVars,
                   qaLoading, assessment, qaError, table, outcome, isUploading,
                   localStorageToken, nSignIns>>

\* SpecAuth: the application is loaded, with or without a token in
\* localStorage.
InitAuth ==
    /\ sessionExists = FALSE
    /\ originalDataset = NoDataset
    /\ currentDataset = NoDataset
    /\ cleaningHistory = <<>>
    /\ writer = 0
    /\ readers = {}
    /\ currentStep = 1
    /\ uploadedFile = FALSE
    /\ sessionId = Null
    /\ preview = List(<<>>)
    /\ columns = List(<<>>)
    /\ pageError = NoError
    /\ startedOver = FALSE
    /\ selectedActions = <<>>
    /\ isProcessing = FALSE
    /\ cleanedData = <<>>
    /\ originalData = <<>>
    /\ dcError = NoError
    /\ calls = [c \in 1..MaxCalls |-> IdleCall]
    /\ nCalls = 0
    /\ reads = [r \in 1..MaxReads |-> IdleRead]
    /\ nReads = 0
    /\ TasksIdle
    /\ NLQIdle
    /\ qaLoading = FALSE
    /\ assessment = NoAssessment
    /\ qaError = NoError
    /\ table = NoTable
    /\ outcome = NoOutcome
    /\ isUploading = FALSE
    /\ localStorageToken \in {Null, "stored"}
    /\ nSignIns = 0
    /\ ProviderMounted(user, sessionToken, isAuthenticated, validation, signIn, signOut)

NextAuth ==
    \/ \E answer \in {"valid", "invalid", "error"} : ValidateSession(answer)
    \/ \E kind \in {"login", "register"} : SignIn(kind)
    \/ \E ok \in BOOLEAN : SignInSettled(ok)
    \/ Logout
    \/ LogoutSettled
    \/ Reload

SpecAuth == InitAuth /\ [][NextAuth]_vars

\* C22: once a login or register call has succeeded, the user stays
\* authenticated until a logout ends that session: while the page stays
\* loaded, the session of an issued token is taken down by no step other
\* than the completion of a logout that was invoked for it.
C22_SessionLastsUntilLogout ==
    [][\A n \in 1..MaxSignIns :
          (isAuthenticated /\ sessionToken = access_token(n) /\ ~isAuthenticated')
          => \/ signOut.pc = "sent" /\ signOut.token = access_token(n) /\ signOut'.pc = "idle"
             \/ Reload]_vars

\* C23: whenever isAuthenticated is true (the state in which AuthGuard
\* renders a protected page) the sessionToken and the user are set and the
\* token in localStorage is that sessionToken.
C23_AuthenticatedMeansOneSession ==
    isAuthenticated =>
        /\ sessionToken # Null
        /\ user # [of |-> Null]
        /\ localStorageToken = sessionToken

----------------------------------------------------------------------------
\* C29: busy flags (SpecBusy: the whole workflow, from the cleaning step on,
\* with the task list on step 3 and the query box on step 4)

NextBusy ==
    \/ Next
    \/ \E taskId \in Range(tasks) : HandleRunTask(taskId)
    \/ \E r \in 1..MaxReads : AnalysisSettled(r)
    \/ \E q \in Questions : currentStep = 4 /\ HandleSubmit(q)
    \/ \E k \in 1..MaxQueries : QueryRequestLost(k)
    \/ \E k \in 1..MaxQueries : QueryAnswered(k)
    \/ \E k \in 1..MaxQueries : QuerySettled(k)

SpecBusy == InitClean /\ [][NextBusy]_vars

\* C29: a screen is busy only while a request of its own is unsettled
\* (isUploading, isProcessing of the cleaning screen, isProcessing of the task
\* list, isLoading of the query box), and the step in which a request of a
\* screen settles, with success or with failure, leaves that screen's flag
\* false.
C29_BusyOnlyWhileARequestIsUnsettled ==
    /\ [](~isUploading)
    /\ [](isProcessing =>
            \E c \in 1..nCalls : ~calls[c].orphan /\ calls[c].status \in {"sent", "running", "responded"})
    /\ [](tasksProcessing =>
            \E r \in 1..nReads : reads[r].kind = "analysis"
                                  /\ reads[r].status \in {"sent", "running", "responded"})
    /\ [](isLoading =>
            \E k \in 1..nQueries : queries[k].from = "nlq"
                                    /\ queries[k].status \in {"sent", "responded"})
    /\ [][\A c \in 1..MaxCalls :
            (calls[c].status = "responded" /\ calls'[c].status = "settled" /\ ~calls[c].orphan)
                => ~isProcessing']_vars
    /\ [][\A r \in 1..MaxReads : AnalysisCompletes(r) => ~tasksProcessing']_vars
    /\ [][\A k \in 1..MaxQueries :
            (QueryCompletes(k) /\ queries[k].from = "nlq") => ~isLoading']_vars

\* A clean has settled, then an analysis task failed and settled, then a
\* query failed and settled, and nothing is busy.
C29_Witness ==
    /\ \E c \in 1..nCalls : calls[c].status = "settled"
    /\ \E r \in 1..nReads : reads[r].status = "settled"
    /\ completedTasks # <<>>
    /\ pageError # NoError
    /\ \E k \in 1..nQueries : queries[k].status = "settled"
    /\ nlqError # NoError
    /\ ~isUploading /\ ~isProcessing /\ ~tasksProcessing /\ ~isLoading

====
